---- MODULE Spec2Model ----
(***************************************************************************)
(* A model of drawrs: the path tracer (drawing/components.rs and           *)
(* drawing/pathfinding.rs), the replay loop of DrawingApp::draw_image      *)
(* (drawing/app.rs) and the region scaler (image_processing/scaling.rs).   *)
(*                                                                         *)
(* Points are records [x, y] of integers.  An Option<Point> is a sequence  *)
(* of length 0 (None) or 1 (Some).  A Vec is a sequence, a HashSet a set.  *)
(***************************************************************************)
EXTENDS Integers, Sequences, FiniteSets, TLC

VARIABLES
    pc,             \* position of the running call
    caller,         \* "direct": find_connected_components called as such;
                    \* "draw": called from draw_image
    points,         \* find_connected_components: the argument points
    order,          \* the order in which the HashSet points yields its elements
    max_distance,   \* find_connected_components: the argument max_distance
    spatial_index,  \* the HashMap built by build_spatial_index
    visited,        \* the HashSet visited
    sorted_points,  \* the Vec sorted_points
    i,              \* position of the for loop over sorted_points (1-based)
    line,           \* trace_line: the Vec line being grown
    lines,          \* the Vec lines
    traced,         \* history: every Vec returned by trace_line, in call order
    img,            \* draw_image: the argument img
    start_pos,      \* draw_image: the argument start_pos
    step,           \* draw_image: the argument step
    line_order,     \* draw_image: the argument line_order
    n,              \* draw_image: position of the loop over lines (1-based)
    events,         \* the calls made on enigo, in order
    end_pos,        \* scale_image_to_region: the argument end_pos
    scaling_mode,   \* scale_image_to_region: the argument scaling_mode
    scaled_img,     \* the image scale_image_to_region returned
    gray_img,       \* process_image: the decoded 16-bit grid gray_img
    processing_method, \* process_image: the argument processing_method
    overflow_checks,   \* TRUE: a build that panics on integer overflow
                       \* (debug); FALSE: a build that wraps (release)
    threshold,      \* the threshold a calculate_*_threshold call returned
    pending,        \* the pixels the parallel map has not mapped yet
    binary_pixels,  \* the Vec binary_pixels, by the index of each pixel
    bw_img,         \* the image process_image returned
    accuracy,       \* the DrawingAccuracy handed to get_step
    coordinates,    \* get_black_pixels_adaptive: the coordinates the
                    \* parallel filter has not looked at yet
    sampled,        \* get_black_pixels_adaptive: the Vec black_pixels, as the
                    \* set of its points
    speed,          \* get_speed: the argument speed
    drawing_speed,  \* the Duration get_speed returned
    slept,          \* the number of sleeps of drawing_speed made so far
    elapsed,        \* the time slept so far, in nanoseconds
    stat_histogram, \* calculate_class_statistics: the argument histogram, by
                    \* its bins that are not 0
    stat_threshold, \* calculate_class_statistics: the argument threshold
    class_stats     \* the sums and counts calculate_class_statistics left

fccVars == <<points, order, max_distance, spatial_index, visited,
             sorted_points, i, line, lines, traced>>

drawVars == <<img, start_pos, step, line_order, n, events>>

scaleVars == <<end_pos, scaling_mode, scaled_img>>

procVars == <<gray_img, processing_method, overflow_checks, threshold,
              pending, binary_pixels, bw_img>>

sampleVars == <<accuracy, coordinates, sampled>>

speedVars == <<speed, drawing_speed, slept, elapsed>>

statVars == <<stat_histogram, stat_threshold, class_stats>>

vars == <<pc, caller, fccVars, drawVars, scaleVars, procVars, sampleVars, speedVars, statVars>>

----------------------------------------------------------------------------
(* Bounds of the model. *)

\* Largest number of points in a point set handed to find_connected_components.
MaxPoints == 7

\* The coordinates the points of a direct call are drawn from: a row of eight
\* points reaching into the negative x axis, and two points of the next row.
Universe ==
    {[x |-> a, y |-> 0] : a \in -2..5} \cup {[x |-> a, y |-> 1] : a \in 0..1}

\* The values of max_distance of a direct call (draw_image passes 3).
Dists == {-2, 0, 1, 2}

----------------------------------------------------------------------------
(* utils/geometry.rs *)

Point(x, y) == [x |-> x, y |-> y]

distance_squared(p, q) ==
    LET dx == p.x - q.x
        dy == p.y - q.y
    IN  dx * dx + dy * dy

----------------------------------------------------------------------------
(* Helpers for Rust's integer and collection semantics. *)

\* i32 division truncates toward zero (b > 0 here).
TruncDiv(a, b) == IF a >= 0 THEN a \div b ELSE -((-a) \div b)

Max(a, b) == IF a >= b THEN a ELSE b

Last(s) == s[Len(s)]

Range(s) == {s[k] : k \in 1..Len(s)}

RECURSIVE Perms(_)
Perms(S) ==
    IF S = {} THEN {<<>>}
    ELSE UNION {{<<p>> \o r : r \in Perms(S \ {p})} : p \in S}

\* Mutant of KeyLess: the key is (p.x, p.y).
KeyLess_ByXY(p, q) == p.x < q.x \/ (p.x = q.x /\ p.y < q.y)

\* (p.y, p.x) < (q.y, q.x), the key of sort_by_key in find_connected_components.
KeyLess(p, q) == p.y < q.y \/ (p.y = q.y /\ p.x < q.x)

\* sorted_points.sort_by_key(|p| (p.y, p.x)): a stable sort, here by insertion
\* of each element after the elements whose key is not larger.
RECURSIVE InsertPoint(_, _)
InsertPoint(s, e) ==
    IF s = <<>> THEN <<e>>
    ELSE IF KeyLess(e, s[1]) THEN <<e>> \o s
    ELSE <<s[1]>> \o InsertPoint(Tail(s), e)

RECURSIVE SortByKey(_)
SortByKey(s) ==
    IF s = <<>> THEN <<>>
    ELSE InsertPoint(SortByKey(SubSeq(s, 1, Len(s) - 1)), Last(s))

\* The key of lines.sort_by_key(|line| Reverse(line.len())): longer is less.
LongerFirst(a, b) == Len(a) > Len(b)

RECURSIVE InsertLine(_, _)
InsertLine(s, e) ==
    IF s = <<>> THEN <<e>>
    ELSE IF LongerFirst(e, s[1]) THEN <<e>> \o s
    ELSE <<s[1]>> \o InsertLine(Tail(s), e)

\* Mutant of SortLines: the lines are returned in the order they were traced.
SortLines_Unsorted(s) == s

\* lines.sort_by_key(|line| Reverse(line.len())): stable, longest first.
RECURSIVE SortLines(_)
SortLines(s) ==
    IF s = <<>> THEN <<>>
    ELSE InsertLine(SortLines(SubSeq(s, 1, Len(s) - 1)), Last(s))

----------------------------------------------------------------------------
(* drawing/components.rs: build_spatial_index *)

\* The cell of a point: i32 division of each coordinate by the cell size.
GridKey(p, grid_size) == <<TruncDiv(p.x, grid_size), TruncDiv(p.y, grid_size)>>

\* build_spatial_index run over the points in the order `iter` in which the
\* HashSet yields them: every cell holds its points in that order.
build_spatial_index(iter, grid_size) ==
    [c \in {GridKey(iter[k], grid_size) : k \in 1..Len(iter)} |->
        SelectSeq(iter, LAMBDA p : GridKey(p, grid_size) = c)]

\* The iteration orders of a HashSet are unspecified.  Two orders that agree
\* on the relative order of the points of every cell build the same index, so
\* one order per combination of per-cell orders is enumerated: the cells are
\* taken one after the other, each in every order of its points.
RECURSIVE IterationOrders(_, _)
IterationOrders(S, grid_size) ==
    IF S = {} THEN {<<>>}
    ELSE LET p0   == CHOOSE p \in S : TRUE
             cell == {p \in S : GridKey(p, grid_size) = GridKey(p0, grid_size)}
         IN  UNION {{h \o t : t \in IterationOrders(S \ cell, grid_size)} :
                    h \in Perms(cell)}

----------------------------------------------------------------------------
(* drawing/pathfinding.rs: find_next_point *)

I32Max == 2147483647

\* The cells visited by `for dx in -1..=1 { for dy in -1..=1 {` in order.
NeighbourKeys(cx, cy) ==
    << <<cx - 1, cy - 1>>, <<cx - 1, cy>>, <<cx - 1, cy + 1>>,
       <<cx,     cy - 1>>, <<cx,     cy>>, <<cx,     cy + 1>>,
       <<cx + 1, cy - 1>>, <<cx + 1, cy>>, <<cx + 1, cy + 1>> >>

\* The points met by the three nested loops, in the order they are met.
RECURSIVE Candidates(_, _, _)
Candidates(keys, k, index) ==
    IF k > Len(keys) THEN <<>>
    ELSE (IF keys[k] \in DOMAIN index THEN index[keys[k]] ELSE <<>>)
         \o Candidates(keys, k + 1, index)

\* Mutant of ScanCandidates: the first unvisited point met within
\* max_distance is kept, nearer points met later being passed over.
RECURSIVE ScanCandidates_FirstFound(_, _, _, _, _, _)
ScanCandidates_FirstFound(cands, k, current, vis, maxd, best) ==
    IF k > Len(cands) THEN best
    ELSE LET point   == cands[k]
             dist_sq == distance_squared(current, point)
         IN  IF point \notin vis /\ dist_sq <= maxd * maxd /\ best[1] = <<>>
             THEN ScanCandidates_FirstFound(cands, k + 1, current, vis, maxd,
                                            <<(<<point>>), dist_sq>>)
             ELSE ScanCandidates_FirstFound(cands, k + 1, current, vis, maxd,
                                            best)

\* Mutant of ScanCandidates: a point at exactly max_distance is not taken.
RECURSIVE ScanCandidates_StrictRadius(_, _, _, _, _, _)
ScanCandidates_StrictRadius(cands, k, current, vis, maxd, best) ==
    IF k > Len(cands) THEN best
    ELSE LET point   == cands[k]
             dist_sq == distance_squared(current, point)
         IN  IF point \notin vis /\ dist_sq < maxd * maxd /\ dist_sq < best[2]
             THEN ScanCandidates_StrictRadius(cands, k + 1, current, vis, maxd,
                                              <<(<<point>>), dist_sq>>)
             ELSE ScanCandidates_StrictRadius(cands, k + 1, current, vis, maxd,
                                              best)

\* The body of the innermost loop, folded over the candidates: `best` is the
\* pair <<best_point, best_distance>>.
RECURSIVE ScanCandidates(_, _, _, _, _, _)
ScanCandidates(cands, k, current, vis, maxd, best) ==
    IF k > Len(cands) THEN best
    ELSE LET point   == cands[k]
             dist_sq == distance_squared(current, point)
         IN  IF point \notin vis /\ dist_sq <= maxd * maxd /\ dist_sq < best[2]
             THEN ScanCandidates(cands, k + 1, current, vis, maxd,
                                 <<(<<point>>), dist_sq>>)
             ELSE ScanCandidates(cands, k + 1, current, vis, maxd, best)

\* Mutant of find_next_point: the nearest unvisited point of the current cell
\* and of the cells after it, the cells before it being skipped.
find_next_point_HalfBlock(current, index, vis, maxd) ==
    LET grid_size == Max(maxd, 1)
        cx == TruncDiv(current.x, grid_size)
        cy == TruncDiv(current.y, grid_size)
    IN  ScanCandidates(
            Candidates(SubSeq(NeighbourKeys(cx, cy), 5, 9), 1, index), 1,
            current, vis, maxd, <<(<<>>), I32Max>>)[1]

find_next_point(current, index, vis, maxd) ==
    LET grid_size == Max(maxd, 1)
        cx == TruncDiv(current.x, grid_size)
        cy == TruncDiv(current.y, grid_size)
    IN  ScanCandidates(Candidates(NeighbourKeys(cx, cy), 1, index), 1,
                       current, vis, maxd, <<(<<>>), I32Max>>)[1]

----------------------------------------------------------------------------
(* drawing/components.rs: find_connected_components, with trace_line of    *)
(* drawing/pathfinding.rs inlined at its one call site.                    *)

\* Mutant of SortedPoints: the points are left in the order the set yields
\* them.
SortedPoints_AsYielded(iter) == iter

\* The points collected in the order the set yields them, then sorted by the
\* key (p.y, p.x).
SortedPoints(iter) == SortByKey(iter)

\* Mutant of KeepLine: a line of two points is kept too.
KeepLine_TwoPoints(l) == Len(l) > 1

\* The line traced from the current start point is kept when it has more
\* than two points.
KeepLine(l) == Len(l) > 2

\* A caller hands find_connected_components a point set, which yields its
\* points in some order, and a max_distance.
CallDirect ==
    /\ pc = "idle"
    /\ \E S \in {T \in SUBSET Universe : Cardinality(T) <= MaxPoints},
          d \in Dists :
          /\ points' = S
          /\ max_distance' = d
          /\ order' \in IterationOrders(S, Max(d, 1))
    /\ caller' = "direct"
    /\ pc' = "fcc_enter"
    /\ UNCHANGED <<spatial_index, visited, sorted_points, i, line, lines,
                   traced, drawVars, scaleVars, procVars, sampleVars, speedVars, statVars>>

\* Entry: build the index, create visited and lines, sort the points.
FccEnter ==
    /\ pc = "fcc_enter"
    /\ spatial_index' = build_spatial_index(order, Max(max_distance, 1))
    /\ sorted_points' = SortedPoints(order)
    /\ visited' = {}
    /\ lines' = <<>>
    /\ i' = 1
    /\ pc' = "fcc_loop"
    /\ UNCHANGED <<caller, points, order, max_distance, line, traced, drawVars, scaleVars, procVars, sampleVars, speedVars, statVars>>

\* Mutant of FccNextStart: a line is started at every point, visited or not.
FccNextStart_NoVisitedCheck ==
    /\ pc = "fcc_loop"
    /\ i <= Len(sorted_points)
    /\ line' = <<sorted_points[i]>>
    /\ visited' = visited \cup {sorted_points[i]}
    /\ pc' = "trace"
    /\ UNCHANGED <<caller, points, order, max_distance, spatial_index,
                   sorted_points, i, lines, traced, drawVars, scaleVars, procVars, sampleVars, speedVars, statVars>>

\* One iteration of `for start_point in sorted_points` up to the call of
\* trace_line, whose first two statements it includes.
FccNextStart ==
    /\ pc = "fcc_loop"
    /\ i <= Len(sorted_points)
    /\ LET start_point == sorted_points[i]
       IN  IF start_point \notin visited
           THEN /\ line' = <<start_point>>
                /\ visited' = visited \cup {start_point}
                /\ pc' = "trace"
                /\ i' = i
           ELSE /\ i' = i + 1
                /\ UNCHANGED <<line, visited, pc>>
    /\ UNCHANGED <<caller, points, order, max_distance, spatial_index,
                   sorted_points, lines, traced, drawVars, scaleVars, procVars, sampleVars, speedVars, statVars>>

\* Mutant of TraceStep: the point pushed is not marked visited.
TraceStep_NoMark ==
    /\ pc = "trace"
    /\ LET next == find_next_point(Last(line), spatial_index, visited,
                                   max_distance)
       IN  IF next # <<>>
           THEN /\ line' = Append(line, next[1])
                /\ UNCHANGED <<visited, pc, i, lines, traced>>
           ELSE /\ traced' = Append(traced, line)
                /\ lines' = IF KeepLine(line) THEN Append(lines, line) ELSE lines
                /\ i' = i + 1
                /\ pc' = "fcc_loop"
                /\ UNCHANGED <<line, visited>>
    /\ UNCHANGED <<caller, points, order, max_distance, spatial_index,
                   sorted_points, drawVars, scaleVars, procVars, sampleVars, speedVars, statVars>>

\* One evaluation of the `while let` of trace_line: a found point is pushed
\* and marked; without one trace_line returns and the caller keeps or drops
\* the line.
TraceStep ==
    /\ pc = "trace"
    /\ LET next == find_next_point(Last(line), spatial_index, visited,
                                   max_distance)
       IN  IF next # <<>>
           THEN /\ line' = Append(line, next[1])
                /\ visited' = visited \cup {next[1]}
                /\ UNCHANGED <<pc, i, lines, traced>>
           ELSE /\ traced' = Append(traced, line)
                /\ lines' = IF KeepLine(line) THEN Append(lines, line) ELSE lines
                /\ i' = i + 1
                /\ pc' = "fcc_loop"
                /\ UNCHANGED <<line, visited>>
    /\ UNCHANGED <<caller, points, order, max_distance, spatial_index,
                   sorted_points, drawVars, scaleVars, procVars, sampleVars, speedVars, statVars>>

\* After the loop: sort the lines and return them.
FccReturn ==
    /\ pc = "fcc_loop"
    /\ i > Len(sorted_points)
    /\ lines' = SortLines(lines)
    /\ pc' = "fcc_done"
    /\ UNCHANGED <<caller, points, order, max_distance, spatial_index, visited,
                   sorted_points, i, line, traced, drawVars, scaleVars, procVars, sampleVars, speedVars, statVars>>

----------------------------------------------------------------------------
(* drawing/app.rs: get_black_pixels_adaptive and draw_image *)

\* An ImageBuffer<Luma<u16>>: its width, its height and the value of every
\* pixel.
Image(w, h, px) == [w |-> w, h |-> h, px |-> px]

Coords(w, h) == (0..(w - 1)) \X (0..(h - 1))

\* The binary masks process_image produces (0 or 255 at every pixel) of the
\* sizes draw_image is tried on: one row of nine pixels, and two rows of three.
DrawSizes == {<<9, 1>>, <<3, 2>>}

DrawImages ==
    UNION {{Image(d[1], d[2], f) : f \in [Coords(d[1], d[2]) -> {0, 255}]} :
           d \in DrawSizes}

\* The values of get_step.
Steps == {1, 2, 3}

StartPositions == {<<0, 0>>, <<40, 30>>}

LineOrders == {"InOrder", "Shuffled"}

\* (0..n).step_by(s): 0, s, 2s, ... below n.
StepBy(m, s) == {v \in 0..(m - 1) : v % s = 0}

\* Mutant of get_black_pixels_adaptive: every pixel is looked at, whatever
\* the step.
get_black_pixels_adaptive_EveryPixel(image, s) ==
    {Point(c[1], c[2]) : c \in {d \in Coords(image.w, image.h) : image.px[d] = 0}}

\* The sampled pixels of value 0, as points.  The filter runs in parallel
\* over the coordinates; each keeps or drops its own coordinate, and the
\* results are collected into a set.
get_black_pixels_adaptive(image, s) ==
    {Point(c[1], c[2]) :
        c \in {d \in StepBy(image.w, s) \X StepBy(image.h, s) : image.px[d] = 0}}

\* (distance as f64).sqrt() as i32
ISqrt(d) == CHOOSE r \in 0..d : r * r <= d /\ (r + 1) * (r + 1) > d

Move(x, y) == [op |-> "move_mouse", x |-> x, y |-> y]
Press == [op |-> "button", direction |-> "Press"]
Release == [op |-> "button", direction |-> "Release"]

\* The moves made between two consecutive points of a line.  The
\* interpolated coordinate current + (s / steps) * (next - current), cut to
\* an i32, is computed exactly; over the distances that occur here the f64
\* computation gives the same value.
SegmentMoves(sp, current, next) ==
    LET distance == distance_squared(current, next)
        steps    == ISqrt(distance)
    IN  IF distance > 1
        THEN [s \in 1..steps |->
                Move(sp[1] + TruncDiv(current.x * steps + s * (next.x - current.x), steps),
                     sp[2] + TruncDiv(current.y * steps + s * (next.y - current.y), steps))]
        ELSE <<Move(sp[1] + next.x, sp[2] + next.y)>>

RECURSIVE WindowMoves(_, _, _)
WindowMoves(sp, l, j) ==
    IF j >= Len(l) THEN <<>>
    ELSE SegmentMoves(sp, l[j], l[j + 1]) \o WindowMoves(sp, l, j + 1)

\* The calls on enigo of one iteration of the loop over lines that is not
\* skipped: move to the first point, press, the moves, release.
StrokeEvents(sp, l) ==
    <<Move(sp[1] + l[1].x, sp[2] + l[1].y), Press>> \o WindowMoves(sp, l, 1)
        \o <<Release>>

\* draw_image is called with a mask, an offset, a step and a line order.
CallDraw ==
    /\ pc = "idle"
    /\ img' \in DrawImages
    /\ start_pos' \in StartPositions
    /\ step' \in Steps
    /\ line_order' \in LineOrders
    /\ caller' = "draw"
    /\ pc' = "draw_enter"
    /\ UNCHANGED <<fccVars, n, events, scaleVars, procVars, sampleVars, speedVars, statVars>>

\* From the entry to the call of find_connected_components, or to the early
\* return.  The set collected by get_black_pixels_adaptive yields its points
\* in an unspecified order.
DrawEnter ==
    /\ pc = "draw_enter"
    /\ LET black_pixels == get_black_pixels_adaptive(img, step)
       IN  IF black_pixels = {}
           THEN /\ pc' = "draw_done"
                /\ UNCHANGED <<points, order, max_distance>>
           ELSE /\ points' = black_pixels
                /\ order' \in IterationOrders(black_pixels, 3)
                /\ max_distance' = 3
                /\ pc' = "fcc_enter"
    /\ UNCHANGED <<caller, spatial_index, visited, sorted_points, i, line,
                   lines, traced, drawVars, scaleVars, procVars, sampleVars, speedVars, statVars>>

\* From the return of find_connected_components to the loop over lines.
DrawShuffle ==
    /\ pc = "fcc_done"
    /\ caller = "draw"
    /\ IF line_order = "Shuffled"
       THEN lines' \in Perms(Range(lines))
       ELSE lines' = lines
    /\ n' = 1
    /\ pc' = "draw_loop"
    /\ UNCHANGED <<caller, points, order, max_distance, spatial_index, visited,
                   sorted_points, i, line, traced, img, start_pos, step,
                   line_order, events, scaleVars, procVars, sampleVars, speedVars, statVars>>

\* Mutant of DrawLine: the keys are read after the button is pressed.
DrawLine_QuitAfterPress ==
    /\ pc = "draw_loop"
    /\ n <= Len(lines)
    /\ IF Len(lines[n]) < 2
       THEN /\ n' = n + 1
            /\ UNCHANGED <<pc, events>>
       ELSE \E q_held \in BOOLEAN :
               IF q_held
               THEN /\ pc' = "exited"
                    /\ events' = events \o SubSeq(StrokeEvents(start_pos, lines[n]), 1, 2)
                    /\ UNCHANGED n
               ELSE /\ events' = events \o StrokeEvents(start_pos, lines[n])
                    /\ n' = n + 1
                    /\ UNCHANGED pc
    /\ UNCHANGED <<caller, fccVars, img, start_pos, step, line_order, scaleVars, procVars, sampleVars, speedVars, statVars>>

\* One iteration of `for line in lines.iter()`: a line of fewer than two
\* points is skipped; with Q held the process exits; otherwise the line is
\* replayed.
DrawLine ==
    /\ pc = "draw_loop"
    /\ n <= Len(lines)
    /\ IF Len(lines[n]) < 2
       THEN /\ n' = n + 1
            /\ UNCHANGED <<pc, events>>
       ELSE \E q_held \in BOOLEAN :
               IF q_held
               THEN /\ pc' = "exited"
                    /\ UNCHANGED <<n, events>>
               ELSE /\ events' = events \o StrokeEvents(start_pos, lines[n])
                    /\ n' = n + 1
                    /\ UNCHANGED pc
    /\ UNCHANGED <<caller, fccVars, img, start_pos, step, line_order, scaleVars, procVars, sampleVars, speedVars, statVars>>

\* After the loop draw_image returns.
DrawReturn ==
    /\ pc = "draw_loop"
    /\ n > Len(lines)
    /\ pc' = "draw_done"
    /\ UNCHANGED <<caller, fccVars, drawVars, scaleVars, procVars, sampleVars, speedVars, statVars>>

NextDraw ==
    \/ CallDraw
    \/ DrawEnter
    \/ DrawShuffle
    \/ DrawLine
    \/ DrawReturn

----------------------------------------------------------------------------
(* image_processing/scaling.rs: ImageScaler::scale_image_to_region *)

\* The smallest width and height of a region, and the value of a padding
\* pixel.
MinRegion == 10
Background == 255

ScalingModes == {"Stretch", "Fit", "Fill", "Center", "Tile"}

Abs(a) == IF a >= 0 THEN a ELSE -a

\* (end - start).unsigned_abs().max(10)
RegionSize(a, b) == Max(Abs(b - a), MinRegion)

\* a / b rounded to the nearest integer, halves away from zero (f64::round),
\* for a >= 0 and b > 0.
RoundDiv(a, b) == (2 * a + b) \div (2 * b)

\* The size of the image DynamicImage::resize(nwidth, nheight, _) returns for
\* a width x height image: the aspect ratio is kept and the image fits in the
\* box nwidth x nheight, each side being at least 1 (image crate,
\* resize_dimensions).
ResizeDimensions(width, height, nwidth, nheight) ==
    IF nwidth * height <= nheight * width
    THEN <<Max(nwidth, 1), Max(RoundDiv(height * nwidth, width), 1)>>
    ELSE <<Max(RoundDiv(width * nheight, height), 1), Max(nheight, 1)>>

\* The image resize_exact(nwidth, nheight, Lanczos3) returns.  Its size is
\* the size asked for; its pixels are a fixed function of the source and of
\* the size, which the filter of the image crate computes and which is
\* represented here by the source pixel under the middle of each new pixel.
ResizeExact(image, nwidth, nheight) ==
    Image(nwidth, nheight,
          [c \in Coords(nwidth, nheight) |->
              image.px[<<((2 * c[1] + 1) * image.w) \div (2 * nwidth),
                         ((2 * c[2] + 1) * image.h) \div (2 * nheight)>>]])

Resize(image, nwidth, nheight) ==
    LET d == ResizeDimensions(image.w, image.h, nwidth, nheight)
    IN  ResizeExact(image, d[1], d[2])

\* (img_width as f64 * scale) as u32 and the same for the height, for
\* scale = region_width / img_width when use_x and region_height / img_height
\* otherwise.  The quotient is exact here; for the sizes of this model the
\* f64 computation gives the same integers.
ScaledSize(image, region_width, region_height, use_x) ==
    IF use_x
    THEN <<(image.w * region_width) \div image.w,
           (image.h * region_width) \div image.w>>
    ELSE <<(image.w * region_height) \div image.h,
           (image.h * region_height) \div image.h>>

\* Mutant of FitSize: the larger of the two scales is taken.
FitSize_LargerScale(image, region_width, region_height) ==
    ScaledSize(image, region_width, region_height,
               region_width * image.h >= region_height * image.w)

\* Fit: scale = scale_x.min(scale_y)
FitSize(image, region_width, region_height) ==
    ScaledSize(image, region_width, region_height,
               region_width * image.h <= region_height * image.w)

\* Fill: scale = scale_x.max(scale_y)
FillSize(image, region_width, region_height) ==
    ScaledSize(image, region_width, region_height,
               region_width * image.h >= region_height * image.w)

ScaleStretch(image, region_width, region_height) ==
    ResizeExact(image, region_width, region_height)

ScaleFit(image, region_width, region_height) ==
    LET new        == FitSize(image, region_width, region_height)
        scaled     == Resize(image, new[1], new[2])
        offset_x   == (region_width - new[1]) \div 2
        offset_y   == (region_height - new[2]) \div 2
    IN  Image(region_width, region_height,
              [c \in Coords(region_width, region_height) |->
                  IF /\ c[1] >= offset_x /\ c[1] - offset_x < scaled.w
                     /\ c[2] >= offset_y /\ c[2] - offset_y < scaled.h
                  THEN scaled.px[<<c[1] - offset_x, c[2] - offset_y>>]
                  ELSE Background])

\* region_width - new_width or region_height - new_height below zero: the
\* u32 subtraction of the Fit arm overflows.
FitUnderflows(image, region_width, region_height) ==
    LET new == FitSize(image, region_width, region_height)
    IN  new[1] > region_width \/ new[2] > region_height

FillCrop(new, region) == IF new > region THEN (new - region) \div 2 ELSE 0

\* The Fill arm calls get_pixel outside the image that resize returned.
FillReadsOutside(image, region_width, region_height) ==
    LET new    == FillSize(image, region_width, region_height)
        scaled == Resize(image, new[1], new[2])
        crop_x == FillCrop(new[1], region_width)
        crop_y == FillCrop(new[2], region_height)
    IN  \E c \in Coords(region_width, region_height) :
            /\ crop_x + c[1] < new[1] /\ crop_y + c[2] < new[2]
            /\ ~(crop_x + c[1] < scaled.w /\ crop_y + c[2] < scaled.h)

ScaleFill(image, region_width, region_height) ==
    LET new    == FillSize(image, region_width, region_height)
        scaled == Resize(image, new[1], new[2])
        crop_x == FillCrop(new[1], region_width)
        crop_y == FillCrop(new[2], region_height)
    IN  Image(region_width, region_height,
              [c \in Coords(region_width, region_height) |->
                  IF crop_x + c[1] < new[1] /\ crop_y + c[2] < new[2]
                  THEN scaled.px[<<crop_x + c[1], crop_y + c[2]>>]
                  ELSE Background])

CenterOffset(region, size) == IF region > size THEN (region - size) \div 2 ELSE 0

ScaleCenter(image, region_width, region_height) ==
    LET offset_x == CenterOffset(region_width, image.w)
        offset_y == CenterOffset(region_height, image.h)
    IN  Image(region_width, region_height,
              [c \in Coords(region_width, region_height) |->
                  IF /\ c[1] >= offset_x /\ c[1] - offset_x < image.w
                     /\ c[2] >= offset_y /\ c[2] - offset_y < image.h
                  THEN image.px[<<c[1] - offset_x, c[2] - offset_y>>]
                  ELSE Background])

\* Mutant of TileSource: the tiles start one column to the left.
TileSource_Shifted(image, x, y) == <<(x + 1) % image.w, y % image.h>>

\* (source_x, source_y) of the Tile arm.
TileSource(image, x, y) == <<x % image.w, y % image.h>>

ScaleTile(image, region_width, region_height) ==
    Image(region_width, region_height,
          [c \in Coords(region_width, region_height) |->
              image.px[TileSource(image, c[1], c[2])]])

\* The call panics: an arithmetic overflow, or a pixel read out of bounds.
ScalePanics(image, sp, ep, mode) ==
    LET region_width  == RegionSize(sp[1], ep[1])
        region_height == RegionSize(sp[2], ep[2])
    IN  \/ mode = "Fit" /\ FitUnderflows(image, region_width, region_height)
        \/ mode = "Fill" /\ FillReadsOutside(image, region_width, region_height)

\* The image returned when the call does not panic.
scale_image_to_region(image, sp, ep, mode) ==
    LET region_width  == RegionSize(sp[1], ep[1])
        region_height == RegionSize(sp[2], ep[2])
    IN  CASE mode = "Stretch" -> ScaleStretch(image, region_width, region_height)
          [] mode = "Fit"     -> ScaleFit(image, region_width, region_height)
          [] mode = "Fill"    -> ScaleFill(image, region_width, region_height)
          [] mode = "Center"  -> ScaleCenter(image, region_width, region_height)
          [] mode = "Tile"    -> ScaleTile(image, region_width, region_height)

\* The widths and heights of the source images, which a decoder produced and
\* which have at least one pixel.
SourceSizes == {1, 3, 10, 11, 12, 14}

\* The masks process_image produces hold 0 and 255 only.  Two are tried of
\* each size: one whose rows repeat under no shift, one of diagonal stripes.
MaskSpots(w, h) ==
    Image(w, h, [c \in Coords(w, h) |->
        IF c[1] + 2 * c[2] \in {0, 1, 3, 6, 10, 15, 21, 28, 36} THEN 0 ELSE 255])

MaskStripes(w, h) ==
    Image(w, h, [c \in Coords(w, h) |->
        IF (c[1] + 2 * c[2]) % 3 = 0 THEN 0 ELSE 255])

SourceImages ==
    UNION {{MaskSpots(w, h), MaskStripes(w, h)} : w \in SourceSizes, h \in SourceSizes}

\* The corners of the regions.
Corners == {<<0, 0>>, <<12, 11>>, <<2, 12>>, <<11, 1>>}

\* scale_image_to_region is called with an image, two corners and a mode.
CallScale ==
    /\ pc = "idle"
    /\ img' \in SourceImages
    /\ start_pos' \in Corners
    /\ end_pos' \in Corners
    /\ scaling_mode' \in ScalingModes
    /\ caller' = "scale"
    /\ pc' = "scale_enter"
    /\ UNCHANGED <<fccVars, step, line_order, n, events, scaled_img, procVars,
                   sampleVars, speedVars, statVars>>

\* The call, from its entry to its return or its panic.
ScaleToRegion ==
    /\ pc = "scale_enter"
    /\ IF ScalePanics(img, start_pos, end_pos, scaling_mode)
       THEN /\ pc' = "scale_panicked"
            /\ UNCHANGED scaled_img
       ELSE /\ pc' = "scale_done"
            /\ scaled_img' = scale_image_to_region(img, start_pos, end_pos,
                                                   scaling_mode)
    /\ UNCHANGED <<caller, fccVars, drawVars, end_pos, scaling_mode, procVars,
                   sampleVars, speedVars, statVars>>

NextScale ==
    \/ CallScale
    \/ ScaleToRegion

----------------------------------------------------------------------------
(* image_processing/conversion.rs: the global thresholds *)

\* The intensities that occur in a grid: the bins of the histogram that are
\* not 0.
Levels(image) == {image.px[c] : c \in Coords(image.w, image.h)}

\* histogram[v], for the bins that are not 0.
Histogram(image) ==
    [v \in Levels(image) |->
        Cardinality({c \in Coords(image.w, image.h) : image.px[c] = v})]

RECURSIVE Ascending(_)
\* The elements of a set of numbers in ascending order.
Ascending(S) ==
    IF S = {} THEN <<>>
    ELSE LET least == CHOOSE a \in S : \A b \in S : a <= b
         IN  <<least>> \o Ascending(S \ {least})

\* The sums of intensity * count reach past TLC's 32-bit integers: a
\* sum is kept as three limbs <<a2, a1, a0>> of 15 bits standing for
\* (a2 * 32768 + a1) * 32768 + a0.  The top limb is not cut: 2^32 is the
\* limbs <<4, 0, 0>>.
Limbs(v) == <<v \div (32768 * 32768), (v \div 32768) % 32768, v % 32768>>

\* The number the limbs stand for, for limbs below 2^31.
Value(a) == (a[1] * 32768 + a[2]) * 32768 + a[3]

LimbsAdd(a, b) ==
    LET s0 == a[3] + b[3]
        s1 == a[2] + b[2] + s0 \div 32768
    IN  <<a[1] + b[1] + s1 \div 32768, s1 % 32768, s0 % 32768>>

\* The limbs times an intensity (below 2^16).
LimbsTimes(a, v) ==
    LET l0 == a[3] * v
        l1 == a[2] * v + l0 \div 32768
    IN  <<a[1] * v + l1 \div 32768, l1 % 32768, l0 % 32768>>

\* The value does not fit in a u32.
ExceedsU32(a) == a[1] >= 4

\* The u32 left by arithmetic that wraps.
WrapU32(a) == <<a[1] % 4, a[2], a[3]>>

RECURSIVE SumBins(_, _)
\* The sum of i * histogram[i] over the bins i of S, in full.
SumBins(histogram, S) ==
    IF S = {} THEN Limbs(0)
    ELSE LET v == CHOOSE a \in S : TRUE
         IN  LimbsAdd(LimbsTimes(Limbs(histogram[v]), v),
                      SumBins(histogram, S \ {v}))

RECURSIVE CountBins(_, _)
\* The sum of histogram[i] over the bins i of S.
CountBins(histogram, S) ==
    IF S = {} THEN 0
    ELSE LET v == CHOOSE a \in S : TRUE
         IN  histogram[v] + CountBins(histogram, S \ {v})

\* The loops over t in 0..65536 of the two global thresholds replace the best
\* threshold only where the value compared is strictly greater than the best
\* so far.  Between two intensities that occur the classes do not change, so
\* the value compared is the same as at the lower one and nothing is
\* replaced: the loops are run here over 0 and the intensities that occur.
CandidateThresholds(image) == Ascending({0} \cup Levels(image))

\* The sums and counts of the two classes, from which w0 = count0 / total,
\* w1 = count1 / total, mu0 = sum0 / count0 and mu1 = sum1 / count1.  sum0 and
\* sum1 are u32: the record holds what wrapping arithmetic leaves in them,
\* and `overflow` tells that a sum went past u32::MAX, where a build with
\* overflow checks panics.
calculate_class_statistics(histogram, t, total) ==
    LET low  == {v \in DOMAIN histogram : v <= t}
        high == {v \in DOMAIN histogram : v > t}
    IN  [count0   |-> CountBins(histogram, low),
         count1   |-> CountBins(histogram, high),
         sum0     |-> WrapU32(SumBins(histogram, low)),
         sum1     |-> WrapU32(SumBins(histogram, high)),
         overflow |-> \/ ExceedsU32(SumBins(histogram, low))
                      \/ ExceedsU32(SumBins(histogram, high)),
         total    |-> total]

\* w0 * w1 * (mu0 - mu1)^2 is a * a / (b * total * total) for
\* a = sum0 * count1 - sum1 * count0 and b = count0 * count1; a variance is
\* kept as <<a, b>>, and 0.0 is <<0, 1>>.
BetweenClassVariance(st) ==
    <<Value(st.sum0) * st.count1 - Value(st.sum1) * st.count0,
      st.count0 * st.count1>>

\* between_class_variance > max_variance
VarianceGreater(v, max) ==
    IF v[1] = 0 THEN FALSE
    ELSE IF max[1] = 0 THEN TRUE
    ELSE v[1] * v[1] * max[2] > max[1] * max[1] * v[2]

RECURSIVE OtsuScan(_, _, _, _, _)
\* The loop of calculate_otsu_threshold over the thresholds ts, from
\* best_threshold = best and max_variance = max.
OtsuScan(histogram, total, ts, best, max) ==
    IF ts = <<>> THEN best
    ELSE LET t  == Head(ts)
             st == calculate_class_statistics(histogram, t, total)
             v  == BetweenClassVariance(st)
         IN  IF st.count0 > 0 /\ st.count1 > 0 /\ VarianceGreater(v, max)
             THEN OtsuScan(histogram, total, Tail(ts), t, v)
             ELSE OtsuScan(histogram, total, Tail(ts), best, max)

calculate_otsu_threshold(image) ==
    OtsuScan(Histogram(image), image.w * image.h, CandidateThresholds(image),
             0, <<0, 1>>)

\* A class sum of the grid goes past u32::MAX at some threshold.
StatisticsOverflow(image) ==
    \E t \in Range(CandidateThresholds(image)) :
        calculate_class_statistics(Histogram(image), t,
                                   image.w * image.h).overflow

RECURSIVE Pow(_, _)
Pow(a, b) == IF b = 0 \/ a = 1 THEN 1 ELSE a * Pow(a, b - 1)

RECURSIVE GCD(_, _)
GCD(a, b) == IF b = 0 THEN a ELSE GCD(b, a % b)

RECURSIVE KapurClass(_, _, _)
\* The sum over the bins of one class, in ascending order, of p * ln(p / w),
\* where w is the sum of p over the bins of the class up to this one.  With
\* counts c and running counts C the sum is -ln(n / d) / total for
\* n / d = product of (C / c)^c; the result is <<n, d>>, each factor in
\* lowest terms.
KapurClass(histogram, bins, running) ==
    IF bins = <<>> THEN <<1, 1>>
    ELSE LET c    == histogram[Head(bins)]
             w    == running + c
             rest == KapurClass(histogram, Tail(bins), w)
             g    == GCD(w, c)
         IN  <<Pow(w \div g, c) * rest[1], Pow(c \div g, c) * rest[2]>>

\* entropy = -sum0 - sum1 at threshold t, as <<n, d>>: ln(n / d) / total.
KapurEntropy(histogram, t) ==
    LET class0 == KapurClass(histogram,
                             Ascending({v \in DOMAIN histogram : v <= t}), 0)
        class1 == KapurClass(histogram,
                             Ascending({v \in DOMAIN histogram : v > t}), 0)
    IN  <<class0[1] * class1[1], class0[2] * class1[2]>>

\* Mutant of EntropyGreater: an equal entropy replaces the best one too.
EntropyGreater_OrEqual(e, max) ==
    IF max = <<>> THEN TRUE ELSE e[1] * max[2] >= max[1] * e[2]

\* entropy > max_entropy; max_entropy = f64::MIN is <<>>.
EntropyGreater(e, max) ==
    IF max = <<>> THEN TRUE ELSE e[1] * max[2] > max[1] * e[2]

RECURSIVE KapurScan(_, _, _, _)
\* The loop of calculate_kapur_threshold over the thresholds ts.
KapurScan(histogram, ts, best, max) ==
    IF ts = <<>> THEN best
    ELSE LET t == Head(ts)
             e == KapurEntropy(histogram, t)
         IN  IF EntropyGreater(e, max)
             THEN KapurScan(histogram, Tail(ts), t, e)
             ELSE KapurScan(histogram, Tail(ts), best, max)

calculate_kapur_threshold(image) ==
    KapurScan(Histogram(image), CandidateThresholds(image), 0, <<>>)

----------------------------------------------------------------------------
(* image_processing/conversion.rs: the thresholds computed from windows *)

\* u16::MAX, the first value of min_val; u16::MIN, the first of max_val, is 0.
U16Max == 65535

\* window_size of calculate_bernsen_threshold.
BernsenWindow == 15

\* What calculate_wolf_threshold returns when weight_sum is not above 0.
WolfFlat == 32768

\* The number of channels of a Luma pixel: pixel[k] panics for k >= 1.
LumaChannels == 1

Min(a, b) == IF a <= b THEN a ELSE b

\* ((min(width, height) as f32 * 0.05).round() as u32).clamp(5, 50)
calculate_window_size(image) ==
    Max(5, Min(50, RoundDiv(Min(image.w, image.h) * 5, 100)))

\* width - window_size or height - window_size, a u32 subtraction, goes below
\* zero in the bounds of the loops over y and x.
RangeUnderflows(image, window_size) ==
    image.w < window_size \/ image.h < window_size

\* The (x, y) the two loops reach when their bounds did not underflow: the
\* pixels with a full window.
Centres(image, window_size) ==
    {c \in Coords(image.w, image.h) :
        /\ window_size <= c[1] /\ c[1] < image.w - window_size
        /\ window_size <= c[2] /\ c[2] < image.h - window_size}

RECURSIVE RowSum(_, _, _, _)
\* The sum over the pixels (0..x, y) of the intensity (squared when sq).
RowSum(image, x, y, sq) ==
    IF x < 0 THEN 0
    ELSE (IF sq THEN image.px[<<x, y>>] * image.px[<<x, y>>]
                ELSE image.px[<<x, y>>])
         + RowSum(image, x - 1, y, sq)

RECURSIVE Integral(_, _, _, _)
\* integral[y * width + x] (integral_sq when sq): the recurrence of the code
\* adds the pixel to the entries on the left and above and takes away the
\* entry above on the left, which gives the sum over the pixels (0..x, 0..y);
\* no u64 step of it goes below zero.
Integral(image, x, y, sq) ==
    IF y < 0 THEN 0
    ELSE RowSum(image, x, y, sq) + Integral(image, x, y - 1, sq)

\* The table integral (integral_sq when sq), by (x, y).
IntegralTable(image, sq) ==
    [c \in Coords(image.w, image.h) |-> Integral(image, c[1], c[2], sq)] @@ <<>>

\* integral[y1][x1] - integral[y0][x1] - integral[y1][x0], the value before
\* the last term is added, for the window of centre c.
WindowPartial(integral, c, window_size) ==
    integral[<<c[1] + window_size, c[2] + window_size>>]
    - integral[<<c[1] + window_size, c[2] - window_size>>]
    - integral[<<c[1] - window_size, c[2] + window_size>>]

\* sum (sum_sq for the table integral_sq) of the window of centre c.
WindowSum(integral, c, window_size) ==
    WindowPartial(integral, c, window_size)
    + integral[<<c[1] - window_size, c[2] - window_size>>]

\* A u64 subtraction of the windowed sum of centre c goes below zero.
WindowSumUnderflows(integral, c, window_size) ==
    WindowPartial(integral, c, window_size) < 0

\* threshold as u16 of the window of centre c.  With area a, sum s and
\* sum_sq q the variance is d / (a * a) for d = q * a - s * s, and
\* mean * (1 + k * (std_dev / r - 1)) is s * (128 * a + sqrt(d)) / (256 * a * a)
\* for k = 0.5 and r = 128.  The root is exact when d is a square, which it
\* is on the grids of this model that have a full window (d = 0).
SauvolaLocal(integral, integral_sq, c, window_size) ==
    LET a == (2 * window_size) * (2 * window_size)
        s == WindowSum(integral, c, window_size)
        q == WindowSum(integral_sq, c, window_size)
        d == q * a - s * s
        root == IF d = 0 THEN 0 ELSE ISqrt(d)
    IN  Min(U16Max, (s * (128 * a + root)) \div (256 * a * a))

\* The element of index k (from 0) of the sorted list of the values of the
\* pairs <<c, v>> of vs: the value with at most k values below it and more
\* than k values at or below it.
SortedAt(vs, k) ==
    CHOOSE v \in {p[2] : p \in vs} :
        /\ Cardinality({p \in vs : p[2] < v}) <= k
        /\ Cardinality({p \in vs : p[2] <= v}) > k

\* threshold_values.sort(); threshold_values[threshold_values.len() / 2],
\* for the list of the values pushed, given as the set vs of the pairs
\* <<c, v>> of a centre and the value pushed for it: <<v>> when the index is
\* in bounds, <<>> when the list is empty and the index panics.
Median(vs) ==
    IF vs = {} THEN <<>> ELSE <<SortedAt(vs, Cardinality(vs) \div 2)>>

\* How a call ends: <<"done", t>> when it returns t, <<"panic">> when it
\* panics.  A loop bound that underflows panics with overflow checks; without
\* them the loops either run no window, and the index into the empty list
\* panics, or reach a window whose index is outside the tables, which panics
\* too.
calculate_sauvola_threshold(image, checks) ==
    LET window_size == calculate_window_size(image)
        integral    == IntegralTable(image, FALSE)
        integral_sq == IntegralTable(image, TRUE)
        cs          == Centres(image, window_size)
        median      == Median({<<c, SauvolaLocal(integral, integral_sq, c,
                                                 window_size)>> : c \in cs})
    IN  IF RangeUnderflows(image, window_size) THEN <<"panic">>
        ELSE IF checks /\ \E c \in cs :
                             \/ WindowSumUnderflows(integral, c, window_size)
                             \/ WindowSumUnderflows(integral_sq, c, window_size)
             THEN <<"panic">>
        ELSE IF median = <<>> THEN <<"panic">>
        ELSE <<"done", median[1]>>

\* The pixels a window scan around (x, y) reads: those inside the grid.
Window(image, c, window_size) ==
    {d \in Coords(image.w, image.h) :
        /\ c[1] - window_size <= d[1] /\ d[1] <= c[1] + window_size
        /\ c[2] - window_size <= d[2] /\ d[2] <= c[2] + window_size}

\* min_val and max_val after the scan of the window around c.
LocalMin(image, c, window_size) ==
    LET vs == {image.px[d] : d \in Window(image, c, window_size)} \cup {U16Max}
    IN  CHOOSE v \in vs : \A u \in vs : v <= u

LocalMax(image, c, window_size) ==
    LET vs == {image.px[d] : d \in Window(image, c, window_size)} \cup {0}
    IN  CHOOSE v \in vs : \A u \in vs : v >= u

\* ((min_val as f64 + max_val as f64) / 2.0) as u16
BernsenLocal(image, c) ==
    (LocalMin(image, c, BernsenWindow) + LocalMax(image, c, BernsenWindow)) \div 2

\* How a call ends: as for Sauvola, and <<"runaway">> when a loop bound has
\* wrapped to about 2^32 in a build without overflow checks and both loops
\* run: the windows are scanned under a bounds test, nothing panics, and a
\* threshold is pushed for each of about 2^32 values of x or y.
calculate_bernsen_threshold(image, checks) ==
    LET cs     == Centres(image, BernsenWindow)
        median == Median({<<c, BernsenLocal(image, c)>> : c \in cs})
    IN  IF RangeUnderflows(image, BernsenWindow)
        THEN IF checks THEN <<"panic">>
             ELSE IF \/ (BernsenWindow <= image.w /\ image.w <= 2 * BernsenWindow)
                     \/ (BernsenWindow <= image.h /\ image.h <= 2 * BernsenWindow)
                  THEN <<"panic">>
                  ELSE <<"runaway">>
        ELSE IF median = <<>> THEN <<"panic">>
        ELSE <<"done", median[1]>>

\* The loop over img.pixels() of calculate_wolf_threshold reads pixel[0] and
\* pixel[1] of its first pixel: the second index is out of bounds.
WolfIndexPanics(image) ==
    image.w * image.h > 0 /\ (0 >= LumaChannels \/ 1 >= LumaChannels)

\* With no pixel the loop does not run and contrast_sum and weight_sum are
\* still 0.0.
calculate_wolf_threshold(image) ==
    IF WolfIndexPanics(image) THEN <<"panic">> ELSE <<"done", WolfFlat>>

----------------------------------------------------------------------------
(* image_processing/conversion.rs: ImageProcessor::process_image *)

ImageProcessingMethods == {"Otsu", "Kapur", "Wolfs", "Bernsens", "Sauvola"}

\* let threshold = match processing_method { ... }: <<"done", t>>,
\* <<"panic">> or <<"runaway">>.
ThresholdResult(image, method, checks) ==
    CASE method = "Otsu"     ->
             IF checks /\ StatisticsOverflow(image) THEN <<"panic">>
             ELSE <<"done", calculate_otsu_threshold(image)>>
      [] method = "Kapur"    -> <<"done", calculate_kapur_threshold(image)>>
      [] method = "Wolfs"    -> calculate_wolf_threshold(image)
      [] method = "Bernsens" -> calculate_bernsen_threshold(image, checks)
      [] method = "Sauvola"  -> calculate_sauvola_threshold(image, checks)

\* The intensities of the small grids.
SmallLevels == {0, 1, 3, 8}

\* The sizes of the small grids.
SmallSizes == {<<2, 2>>, <<3, 1>>}

\* The grids a decoder hands to process_image: every grid of a small size
\* over the small intensities, and grids of the two levels 10 and 60000,
\* half the pixels each.
TwoLevelGrids ==
    {Image(2, 1, [c \in Coords(2, 1) |-> IF c[1] = 0 THEN 10 ELSE 60000]),
     Image(2, 1, [c \in Coords(2, 1) |-> IF c[1] = 0 THEN 60000 ELSE 10]),
     Image(2, 2, [c \in Coords(2, 2) |-> IF c[1] = c[2] THEN 10 ELSE 60000]),
     Image(4, 3, [c \in Coords(4, 3) |-> IF c[1] < 2 THEN 60000 ELSE 10])}

DecodedGrids ==
    UNION {{Image(d[1], d[2], px) : px \in [Coords(d[1], d[2]) -> SmallLevels]}
           : d \in SmallSizes}
    \cup TwoLevelGrids

UniformGrid(w, h, v) == Image(w, h, [c \in Coords(w, h) |-> v])

\* The sizes and the intensities of the uniform grids: sizes without a full
\* window, with one, and with many.
UniformSizes == {<<1, 1>>, <<10, 12>>, <<11, 11>>, <<16, 31>>, <<31, 31>>}
UniformLevels == {0, 400}

\* The grids the threshold calculations are called on.
ThresholdGrids ==
    DecodedGrids
    \cup {UniformGrid(d[1], d[2], v) : d \in UniformSizes, v \in UniformLevels}
    \cup {UniformGrid(1, 1, U16Max), UniformGrid(2, 2, U16Max)}

\* Grids of two intensities in columns, v in the even columns and 0 in the
\* odd ones: every window of an even width holds as many of the one as of the
\* other, and its standard deviation is v / 2.
StripedGrid(w, h, v) ==
    Image(w, h, [c \in Coords(w, h) |-> IF c[1] % 2 = 0 THEN v ELSE 0])

StripedGrids == {StripedGrid(12, 12, 8), StripedGrid(31, 31, 2)}

\* The methods whose threshold is computed from windows.
WindowMethods == {"Wolfs", "Bernsens", "Sauvola"}

\* One of the five calculate_*_threshold functions is called on a grid; the
\* striped grids are tried with the window methods.
CallThreshold ==
    /\ pc = "idle"
    /\ \/ /\ gray_img' \in ThresholdGrids
          /\ processing_method' \in ImageProcessingMethods
       \/ /\ gray_img' \in StripedGrids
          /\ processing_method' \in WindowMethods
    /\ overflow_checks' \in BOOLEAN
    /\ caller' = "threshold"
    /\ pc' = "thr_enter"
    /\ UNCHANGED <<fccVars, drawVars, scaleVars, threshold, pending,
                   binary_pixels, bw_img, sampleVars, speedVars, statVars>>

\* The call, from its entry to its end.
ThresholdReturn ==
    /\ pc = "thr_enter"
    /\ LET result == ThresholdResult(gray_img, processing_method,
                                     overflow_checks)
       IN  IF result[1] = "done"
           THEN /\ threshold' = result[2]
                /\ pc' = "thr_done"
           ELSE /\ pc' = IF result[1] = "panic" THEN "thr_panicked"
                                                ELSE "thr_runaway"
                /\ UNCHANGED threshold
    /\ UNCHANGED <<caller, fccVars, drawVars, scaleVars, gray_img,
                   processing_method, overflow_checks, pending, binary_pixels,
                   bw_img, sampleVars, speedVars, statVars>>

NextThreshold ==
    \/ CallThreshold
    \/ ThresholdReturn

\* The pixel of index k (from 0) of gray_img.pixels(), and of the image
\* ImageBuffer::from_vec builds: the rows follow each other.
PixelCoord(image, k) == <<k % image.w, k \div image.w>>

\* Mutant of Binarize: a pixel equal to the threshold is white too.
Binarize_AtOrAbove(pixel, t) == IF pixel >= t THEN 255 ELSE 0

\* if pixel[0] > threshold { 255 } else { 0 }
Binarize(pixel, t) == IF pixel > t THEN 255 ELSE 0

\* process_image is called on a decoded grid.
CallProcess ==
    /\ pc = "idle"
    /\ gray_img' \in DecodedGrids
    /\ processing_method' \in ImageProcessingMethods
    /\ overflow_checks' \in BOOLEAN
    /\ caller' = "process"
    /\ pc' = "proc_enter"
    /\ UNCHANGED <<fccVars, drawVars, scaleVars, threshold, pending,
                   binary_pixels, bw_img, sampleVars, speedVars, statVars>>

\* The threshold is computed and the pixels are handed to the parallel map.
ProcThreshold ==
    /\ pc = "proc_enter"
    /\ LET result == ThresholdResult(gray_img, processing_method,
                                     overflow_checks)
       IN  IF result[1] = "done"
           THEN /\ threshold' = result[2]
                /\ pending' = 0..(gray_img.w * gray_img.h - 1)
                /\ binary_pixels' = <<>>
                /\ pc' = "binarize"
           ELSE /\ pc' = IF result[1] = "panic" THEN "proc_panicked"
                                                ELSE "proc_runaway"
                /\ UNCHANGED <<threshold, pending, binary_pixels>>
    /\ UNCHANGED <<caller, fccVars, drawVars, scaleVars, gray_img,
                   processing_method, overflow_checks, bw_img, sampleVars, speedVars, statVars>>

\* Mutant of BinarizeWorker: the value mapped is pushed behind the values
\* mapped before it.
BinarizeWorker_PushOrder ==
    /\ pc = "binarize"
    /\ \E k \in pending :
        /\ binary_pixels' =
               binary_pixels @@
               (Cardinality(DOMAIN binary_pixels) :>
                   Binarize(gray_img.px[PixelCoord(gray_img, k)], threshold))
        /\ pending' = pending \ {k}
    /\ UNCHANGED <<pc, caller, fccVars, drawVars, scaleVars, gray_img,
                   processing_method, overflow_checks, threshold, bw_img,
                   sampleVars, speedVars, statVars>>

\* A worker of par_iter().map(..).collect() maps one pixel, any that is left;
\* collect keeps the value at the index of the pixel.
BinarizeWorker ==
    /\ pc = "binarize"
    /\ \E k \in pending :
        /\ binary_pixels' =
               binary_pixels @@
               (k :> Binarize(gray_img.px[PixelCoord(gray_img, k)], threshold))
        /\ pending' = pending \ {k}
    /\ UNCHANGED <<pc, caller, fccVars, drawVars, scaleVars, gray_img,
                   processing_method, overflow_checks, threshold, bw_img,
                   sampleVars, speedVars, statVars>>

\* ImageBuffer::from_vec(width, height, binary_pixels) and the return.
ProcReturn ==
    /\ pc = "binarize"
    /\ pending = {}
    /\ bw_img' = Image(gray_img.w, gray_img.h,
                       [c \in Coords(gray_img.w, gray_img.h) |->
                           binary_pixels[c[2] * gray_img.w + c[1]]])
    /\ pc' = "proc_done"
    /\ UNCHANGED <<caller, fccVars, drawVars, scaleVars, gray_img,
                   processing_method, overflow_checks, threshold, pending,
                   binary_pixels, sampleVars, speedVars, statVars>>

NextProcess ==
    \/ CallProcess
    \/ ProcThreshold
    \/ BinarizeWorker
    \/ ProcReturn

\* The masks the sampling pass is tried on: a row of seven pixels, two rows
\* of four and three rows of two, 0 or 255 at every pixel.
SampleSizes == {<<7, 1>>, <<4, 2>>, <<2, 3>>}

SampleImages ==
    UNION {{Image(d[1], d[2], f) : f \in [Coords(d[1], d[2]) -> {0, 255}]} :
           d \in SampleSizes}

DrawingAccuracies == {"Fast", "Balanced", "Accurate"}

get_step(drawing_accuracy) ==
    CASE drawing_accuracy = "Fast" -> 3
      [] drawing_accuracy = "Balanced" -> 2
      [] drawing_accuracy = "Accurate" -> 1

\* get_black_pixels_adaptive is called with a mask and the step of an
\* accuracy; the coordinates are collected before the parallel filter starts.
CallSample ==
    /\ pc = "idle"
    /\ img' \in SampleImages
    /\ accuracy' \in DrawingAccuracies
    /\ step' = get_step(accuracy')
    /\ coordinates' = StepBy(img'.w, step') \X StepBy(img'.h, step')
    /\ sampled' = {}
    /\ caller' = "sample"
    /\ pc' = "sample"
    /\ UNCHANGED <<fccVars, start_pos, line_order, n, events, scaleVars,
                   procVars, speedVars, statVars>>

\* Mutant of SampleWorker: a worker that keeps its point loses the points
\* kept before it.
SampleWorker_LostUpdate ==
    /\ pc = "sample"
    /\ \E c \in coordinates :
        /\ sampled' = IF img.px[c] = 0 THEN {Point(c[1], c[2])} ELSE sampled
        /\ coordinates' = coordinates \ {c}
    /\ UNCHANGED <<pc, caller, fccVars, drawVars, scaleVars, procVars,
                   accuracy, speedVars, statVars>>

\* A worker of par_iter().filter_map(..) looks at one coordinate, any that is
\* left, and keeps its point when the pixel is 0.
SampleWorker ==
    /\ pc = "sample"
    /\ \E c \in coordinates :
        /\ sampled' = IF img.px[c] = 0
                      THEN sampled \cup {Point(c[1], c[2])}
                      ELSE sampled
        /\ coordinates' = coordinates \ {c}
    /\ UNCHANGED <<pc, caller, fccVars, drawVars, scaleVars, procVars,
                   accuracy, speedVars, statVars>>

\* Every coordinate was looked at: the points kept are returned as a set.
SampleReturn ==
    /\ pc = "sample"
    /\ coordinates = {}
    /\ pc' = "sample_done"
    /\ UNCHANGED <<caller, fccVars, drawVars, scaleVars, procVars, sampleVars, speedVars, statVars>>

NextSample ==
    \/ CallSample
    \/ SampleWorker
    \/ SampleReturn

----------------------------------------------------------------------------
(* image_processing/conversion.rs: calculate_class_statistics on the        *)
(* histograms of larger images                                             *)

\* The intensities and the numbers of pixels of the histograms tried: images
\* of up to 286332 pixels.
StatBins == {0, 10, 60000, 65535}
StatCounts == {0, 1, 40000, 65538, 71583}

\* The histograms, kept by their bins that are not 0.
StatHistograms ==
    UNION {[S -> StatCounts \ {0}] : S \in (SUBSET StatBins) \ {{}}}

\* calculate_otsu_threshold calls calculate_class_statistics with the
\* histogram of its image and a threshold of its loop.
CallStatistics ==
    /\ pc = "idle"
    /\ stat_histogram' \in StatHistograms
    /\ stat_threshold' \in StatBins
    /\ overflow_checks' \in BOOLEAN
    /\ caller' = "statistics"
    /\ pc' = "stat_enter"
    /\ UNCHANGED <<fccVars, drawVars, scaleVars, gray_img, processing_method,
                   threshold, pending, binary_pixels, bw_img, sampleVars,
                   speedVars, class_stats>>

\* The call, from its entry to its end.
StatisticsReturn ==
    /\ pc = "stat_enter"
    /\ LET result == calculate_class_statistics(
                         stat_histogram, stat_threshold,
                         CountBins(stat_histogram, DOMAIN stat_histogram))
       IN  IF overflow_checks /\ result.overflow
           THEN /\ pc' = "stat_panicked"
                /\ UNCHANGED class_stats
           ELSE /\ class_stats' = result
                /\ pc' = "stat_done"
    /\ UNCHANGED <<caller, fccVars, drawVars, scaleVars, procVars, sampleVars,
                   speedVars, stat_histogram, stat_threshold>>

NextStatistics ==
    \/ CallStatistics
    \/ StatisticsReturn

----------------------------------------------------------------------------
(* choices/drawing.rs: get_speed, with utils/duration.rs *)

\* The largest number of sleeps of drawing_speed followed.
MaxSleeps == 20

PICOS_PER_NANO == 1000

NanosPerSec == 1000000000

\* std::time::Duration: whole seconds and the nanoseconds of the second begun.
Duration(secs, nanos) == [secs |-> secs, nanos |-> nanos]

\* Duration::from_micros.
from_micros(micros) ==
    Duration(micros \div 1000000, (micros % 1000000) * 1000)

\* DurExt::from_picos: the picoseconds are cut to whole nanoseconds.
from_picos(picoseconds) ==
    LET nanos == picoseconds \div PICOS_PER_NANO
    IN  Duration(nanos \div NanosPerSec, nanos % NanosPerSec)

\* Duration::is_zero.
is_zero(d) == d.secs = 0 /\ d.nanos = 0

DrawingSpeeds == {"UniverseAnnihilating", "UltraFast", "Fast", "Medium", "Slow"}

\* get_speed: the Duration returned, or the panic of a refused confirmation.
\* `confirmation` is the answer to the prompt, read for UniverseAnnihilating
\* only.
get_speed(s, confirmation) ==
    CASE s = "UniverseAnnihilating" ->
             IF confirmation THEN <<"done", from_picos(1)>> ELSE <<"panic">>
      [] s = "UltraFast" -> <<"done", from_micros(1)>>
      [] s = "Fast" -> <<"done", from_micros(10)>>
      [] s = "Medium" -> <<"done", from_micros(50)>>
      [] s = "Slow" -> <<"done", from_micros(200)>>

\* execute hands get_speed the speed the user chose.
CallGetSpeed ==
    /\ pc = "idle"
    /\ speed' \in DrawingSpeeds
    /\ caller' = "speed"
    /\ pc' = "speed_enter"
    /\ UNCHANGED <<fccVars, drawVars, scaleVars, procVars, sampleVars,
                   drawing_speed, slept, elapsed, statVars>>

\* get_speed runs: the prompt is answered either way.
GetSpeedReturn ==
    /\ pc = "speed_enter"
    /\ \E confirmation \in BOOLEAN :
          LET result == get_speed(speed, confirmation)
          IN  IF result[1] = "done"
              THEN /\ drawing_speed' = result[2]
                   /\ pc' = "speed_done"
              ELSE /\ pc' = "speed_panicked"
                   /\ UNCHANGED drawing_speed
    /\ UNCHANGED <<caller, fccVars, drawVars, scaleVars, procVars, sampleVars,
                   speed, slept, elapsed, statVars>>

\* thread::sleep(drawing_speed), made after each line replayed.
SleepLine ==
    /\ pc = "speed_done"
    /\ slept < MaxSleeps
    /\ slept' = slept + 1
    /\ elapsed' = elapsed + drawing_speed.secs * NanosPerSec + drawing_speed.nanos
    /\ UNCHANGED <<pc, caller, fccVars, drawVars, scaleVars, procVars,
                   sampleVars, speed, drawing_speed, statVars>>

NextSpeed ==
    \/ CallGetSpeed
    \/ GetSpeedReturn
    \/ SleepLine

----------------------------------------------------------------------------

NoImage == Image(0, 0, <<>>)

Init ==
    /\ pc = "idle"
    /\ caller = "none"
    /\ points = {}
    /\ order = <<>>
    /\ max_distance = 0
    /\ spatial_index = <<>>
    /\ visited = {}
    /\ sorted_points = <<>>
    /\ i = 1
    /\ line = <<>>
    /\ lines = <<>>
    /\ traced = <<>>
    /\ img = NoImage
    /\ start_pos = <<0, 0>>
    /\ step = 1
    /\ line_order = "InOrder"
    /\ n = 1
    /\ events = <<>>
    /\ end_pos = <<0, 0>>
    /\ scaling_mode = "Stretch"
    /\ scaled_img = NoImage
    /\ gray_img = NoImage
    /\ processing_method = "Otsu"
    /\ overflow_checks = TRUE
    /\ threshold = 0
    /\ pending = {}
    /\ binary_pixels = <<>>
    /\ bw_img = NoImage
    /\ accuracy = "Accurate"
    /\ coordinates = {}
    /\ sampled = {}
    /\ speed = "Slow"
    /\ drawing_speed = Duration(0, 0)
    /\ slept = 0
    /\ elapsed = 0
    /\ stat_histogram = <<>>
    /\ stat_threshold = 0
    /\ class_stats = calculate_class_statistics(<<>>, 0, 0)

NextFcc ==
    \/ FccEnter
    \/ FccNextStart
    \/ TraceStep
    \/ FccReturn

Next ==
    \/ CallDirect
    \/ NextFcc
    \/ NextDraw

Spec == Init /\ [][Next]_vars

\* The positions at which a call of find_connected_components has a step to
\* take: FccRunning is equivalent to ENABLED <<NextFcc>>_vars.
FccRunning == pc \in {"fcc_enter", "fcc_loop", "trace"}

\* A call of find_connected_components is sequential code that nothing
\* suspends: once called, a step that can be taken is taken.  This is weak
\* fairness of NextFcc, WF_vars(NextFcc), written out with FccRunning in the
\* place of ENABLED <<NextFcc>>_vars.
FairSpec ==
    Init /\ [][Next]_vars /\ ([]<>(~FccRunning) \/ []<><<NextFcc>>_vars)

\* The calls of scale_image_to_region.
ScaleSpec == Init /\ [][NextScale]_vars

\* The calls of the threshold calculations.
ThresholdSpec == Init /\ [][NextThreshold]_vars

\* The calls of process_image.
ProcessSpec == Init /\ [][NextProcess]_vars

\* The calls of get_black_pixels_adaptive.
SampleSpec == Init /\ [][NextSample]_vars

\* The calls of calculate_class_statistics.
StatisticsSpec == Init /\ [][NextStatistics]_vars

\* The calls of get_speed and the sleeps that follow.
SpeedSpec == Init /\ [][NextSpeed]_vars

----------------------------------------------------------------------------
(* Properties of find_connected_components. *)

\* p is before q in (y, x) order.
KeyLessYX(p, q) == p.y < q.y \/ (p.y = q.y /\ p.x < q.x)

\* The points of the paths of a list of paths.
PathPoints(ls) == UNION {Range(ls[j]) : j \in 1..Len(ls)}

\* No point occurs twice, in one path or in two.
NoRepeat(ls) ==
    /\ \A j \in 1..Len(ls) : Cardinality(Range(ls[j])) = Len(ls[j])
    /\ \A j, k \in 1..Len(ls) : j # k => Range(ls[j]) \cap Range(ls[k]) = {}

\* The points of the paths trace_line returned and the caller dropped.
Discarded == UNION {Range(traced[j]) : j \in {k \in 1..Len(traced) : Len(traced[k]) <= 2}}

RECURSIVE SumLen(_)
SumLen(ls) == IF ls = <<>> THEN 0 ELSE Len(ls[1]) + SumLen(Tail(ls))

\* C1: the returned paths partition their points: every point of a returned
\* path is an input point, no point occurs twice, and the union of the
\* returned paths is the input set minus the points of the dropped paths.
C1_Partition ==
    pc = "fcc_done" =>
        /\ PathPoints(lines) \subseteq points
        /\ NoRepeat(lines)
        /\ PathPoints(lines) = points \ Discarded

C1_Witness ==
    /\ pc = "fcc_done"
    /\ Len(lines) >= 2
    /\ Discarded # {}

\* C2: for max_distance >= 1, a point q appended after the last point p was
\* unvisited, is within max_distance of p, and no unvisited input point
\* was strictly closer to p.
C2_NearestUnvisited ==
    [][(pc = "trace" /\ max_distance >= 1 /\ Len(line') = Len(line) + 1) =>
          LET p == Last(line)
              q == Last(line')
          IN  /\ q \in points \ visited
              /\ distance_squared(p, q) <= max_distance * max_distance
              /\ \A r \in points \ visited :
                    distance_squared(p, r) >= distance_squared(p, q)]_vars

\* A point was appended while an unvisited point lay outside the 3x3 block
\* of cells around the point it was appended to.
C2_Witness ==
    /\ pc = "trace"
    /\ max_distance >= 1
    /\ Len(line) >= 2
    /\ \E r \in points \ visited :
          LET kp == GridKey(line[Len(line) - 1], max_distance)
              kr == GridKey(r, max_distance)
          IN  kr[1] - kp[1] > 1 \/ kp[1] - kr[1] > 1

\* C3: exactly the traced paths of at most two points are dropped: every
\* returned path has at least three points and was traced, and every traced
\* path of at least three points is returned.
C3_DropsShortPaths ==
    pc = "fcc_done" =>
        /\ \A j \in 1..Len(lines) : Len(lines[j]) >= 3 /\ lines[j] \in Range(traced)
        /\ \A j \in 1..Len(traced) :
              Len(traced[j]) >= 3 => traced[j] \in Range(lines)

C3_Witness ==
    /\ pc = "fcc_done"
    /\ \E j \in 1..Len(traced) : Len(traced[j]) = 2
    /\ \E j \in 1..Len(traced) : Len(traced[j]) = 3

\* C4: the returned list is ordered by non-increasing path length.
C4_LongestFirst ==
    pc = "fcc_done" =>
        \A j \in 1..(Len(lines) - 1) : Len(lines[j]) >= Len(lines[j + 1])

\* Two paths are returned and the one traced first is the shorter one.
C4_Witness ==
    /\ pc = "fcc_done"
    /\ Len(lines) = 2
    /\ Len(lines[1]) > Len(lines[2])
    /\ \E j, k \in 1..Len(traced) :
          j < k /\ traced[j] = lines[2] /\ traced[k] = lines[1]

\* Three points whose pairwise distances are all less than max_distance.
Triangle ==
    /\ Cardinality(points) = 3
    /\ max_distance > 0
    /\ \A p, q \in points :
          distance_squared(p, q) < max_distance * max_distance

\* C5: for such a triangle exactly one path is returned, it holds the three
\* points, and it starts at the smallest of them in (y, x) order.
C5_Triangle ==
    (pc = "fcc_done" /\ Triangle) =>
        /\ Len(lines) = 1
        /\ Range(lines[1]) = points
        /\ Len(lines[1]) = 3
        /\ \A p \in points : p = lines[1][1] \/ KeyLessYX(lines[1][1], p)

\* A triangle that is not a row of three points.
C5_Witness ==
    /\ pc = "fcc_done"
    /\ Triangle
    /\ \E p, q \in points : p.y # q.y
    /\ Len(lines) = 1

\* No pixel that the sampling pass looks at has the value 0.
NoSampledBlack ==
    \A x \in StepBy(img.w, step), y \in StepBy(img.h, step) : img.px[<<x, y>>] # 0

\* C6: an empty foreground is not an error: on the empty point set
\* find_connected_components returns the empty list, and draw_image on a mask
\* with no sampled pixel of value 0 goes from its entry to its return and
\* makes no call on the pointer.
C6_EmptyForeground ==
    /\ (pc = "fcc_done" /\ points = {}) => lines = <<>>
    /\ (caller = "draw" /\ NoSampledBlack) =>
          (pc \in {"draw_enter", "draw_done"} /\ events = <<>>)

\* draw_image returned on a mask whose pixels of value 0 are all skipped by
\* the step.
C6_Witness ==
    /\ caller = "draw"
    /\ pc = "draw_done"
    /\ NoSampledBlack
    /\ Cardinality({c \in Coords(img.w, img.h) : img.px[c] = 0}) >= 3

\* find_connected_components returned on the empty point set.
C6_WitnessEmptySet ==
    /\ caller = "direct"
    /\ pc = "fcc_done"
    /\ points = {}

\* The points appended so far, over all calls of trace_line.
Appended == SumLen(traced) + (IF pc = "trace" THEN Len(line) ELSE 0)

\* C7: the call terminates: every point appended was unvisited and is marked,
\* so the points appended number the points visited, at most the input's
\* size, and the call reaches its return.
C7_Terminates ==
    /\ [](visited \subseteq points /\ Appended = Cardinality(visited))
    /\ [][(pc = "trace" /\ Len(line') = Len(line) + 1) =>
            Last(line') \in points \ visited /\ Last(line') \in visited']_vars
    /\ (pc = "fcc_enter") ~> (pc = "fcc_done")

\* A call returned after visiting every point of a set that needed more than
\* one path.
C7_Witness ==
    /\ pc = "fcc_done"
    /\ Cardinality(points) >= 4
    /\ visited = points
    /\ Len(traced) >= 2

----------------------------------------------------------------------------
(* The scaler *)

ScaleCalled == caller = "scale" /\ pc \in {"scale_done", "scale_panicked"}

RegionWidth == RegionSize(start_pos[1], end_pos[1])
RegionHeight == RegionSize(start_pos[2], end_pos[2])

\* C8: for every mode, source and pair of corners the call returns an image
\* of max(|x2-x1|,10) by max(|y2-y1|,10) pixels, and the call with the two
\* corners swapped returns the same image.
C8_SizeAndSymmetry ==
    ScaleCalled =>
        /\ pc = "scale_done"
        /\ scaled_img.w = Max(Abs(end_pos[1] - start_pos[1]), 10)
        /\ scaled_img.h = Max(Abs(end_pos[2] - start_pos[2]), 10)
        /\ scaled_img = scale_image_to_region(img, end_pos, start_pos,
                                              scaling_mode)

\* What holds of C8: the size and the symmetry of every call that returns,
\* and the return of every call in a mode other than Fill.
C8_WhenReturned ==
    /\ ScaleCalled /\ scaling_mode # "Fill" => pc = "scale_done"
    /\ ScaleCalled /\ pc = "scale_done" =>
        /\ scaled_img.w = Max(Abs(end_pos[1] - start_pos[1]), 10)
        /\ scaled_img.h = Max(Abs(end_pos[2] - start_pos[2]), 10)
        /\ ~ScalePanics(img, end_pos, start_pos, scaling_mode)
        /\ scaled_img = scale_image_to_region(img, end_pos, start_pos,
                                              scaling_mode)

\* The corners span a rectangle of the source's width and height.
SpansSource ==
    /\ Abs(end_pos[1] - start_pos[1]) = img.w
    /\ Abs(end_pos[2] - start_pos[2]) = img.h

\* C9 as stated: in Tile mode, when the corners span a rectangle of the
\* source's width and height, the image returned is the source.
C9_TileRoundTripAnySize ==
    ScaleCalled /\ scaling_mode = "Tile" /\ SpansSource =>
        pc = "scale_done" /\ scaled_img = img

\* C9: in Tile mode, when the corners span a rectangle of the source's width
\* and height and both are at least 10, the image returned is the source,
\* pixel for pixel.
C9_TileRoundTrip ==
    ScaleCalled /\ scaling_mode = "Tile" /\ SpansSource
                /\ img.w >= MinRegion /\ img.h >= MinRegion =>
        /\ pc = "scale_done"
        /\ scaled_img.w = img.w /\ scaled_img.h = img.h
        /\ \A c \in Coords(img.w, img.h) : scaled_img.px[c] = img.px[c]

\* A Tile call returned for a 12 x 11 source and corners 12 apart in x and 11
\* apart in y.
C9_Witness ==
    /\ ScaleCalled /\ pc = "scale_done" /\ scaling_mode = "Tile"
    /\ SpansSource
    /\ img = MaskSpots(12, 11)

\* The canvas shows the source pasted at (ox, oy), clipped, on background.
PastedAt(ox, oy) ==
    \A c \in Coords(scaled_img.w, scaled_img.h) :
        LET s == <<c[1] - ox, c[2] - oy>>
        IN  scaled_img.px[c] =
                IF s \in Coords(img.w, img.h) THEN img.px[s] ELSE Background

\* The offsets that center a side of length size in a side of length region,
\* to one pixel.
CenteredOffsets(region, size) ==
    {o \in -size..region : Abs(2 * o - (region - size)) <= 2}

\* C10: in Center mode the canvas shows the source pasted centered in each
\* dimension, to one pixel, whether the source is smaller or larger than the
\* canvas, and every pixel the source does not cover is 255.
C10_Centered ==
    ScaleCalled /\ scaling_mode = "Center" =>
        /\ pc = "scale_done"
        /\ \E ox \in CenteredOffsets(RegionWidth, img.w) :
           \E oy \in CenteredOffsets(RegionHeight, img.h) : PastedAt(ox, oy)

\* What holds of C10: the source is pasted at the offsets of the code, which
\* center it in the dimensions in which it is not larger than the canvas.
C10_PastedAtCodeOffsets ==
    ScaleCalled /\ scaling_mode = "Center" =>
        /\ pc = "scale_done"
        /\ PastedAt(CenterOffset(RegionWidth, img.w),
                    CenterOffset(RegionHeight, img.h))
        /\ (img.w <= RegionWidth /\ img.h <= RegionHeight =>
            \E ox \in CenteredOffsets(RegionWidth, img.w) :
            \E oy \in CenteredOffsets(RegionHeight, img.h) : PastedAt(ox, oy))

\* C11: in Fit mode the scaled size is at most the region in both dimensions,
\* so the offsets do not underflow and the call returns; the resampled image
\* is written at the offsets ((region - new) / 2), and every other pixel of
\* the canvas is 255.
C11_FitWrittenAtOffset ==
    ScaleCalled /\ scaling_mode = "Fit" =>
        LET new      == FitSize(img, RegionWidth, RegionHeight)
            scaled   == Resize(img, new[1], new[2])
            offset_x == (RegionWidth - new[1]) \div 2
            offset_y == (RegionHeight - new[2]) \div 2
        IN  /\ new[1] <= RegionWidth /\ new[2] <= RegionHeight
            /\ pc = "scale_done"
            /\ \A c \in Coords(RegionWidth, RegionHeight) :
                LET s == <<c[1] - offset_x, c[2] - offset_y>>
                IN  scaled_img.px[c] =
                        IF s \in Coords(scaled.w, scaled.h)
                        THEN scaled.px[s] ELSE Background

\* A Fit call returned whose scaled image is lower than the region, with a
\* padding row above it and a pixel of the source's 0 in it.
C11_Witness ==
    /\ ScaleCalled /\ pc = "scale_done" /\ scaling_mode = "Fit"
    /\ FitSize(img, RegionWidth, RegionHeight)[2] + 2 <= RegionHeight
    /\ \A x \in 0..(RegionWidth - 1) : scaled_img.px[<<x, 0>>] = Background
    /\ \E c \in Coords(RegionWidth, RegionHeight) : scaled_img.px[c] = 0

\* C12: in Fill mode the scaled size covers the region, the call returns, and
\* every output pixel (x, y) is the pixel of the resampled image at
\* (x + (scaled_w - region_w) / 2, y + (scaled_h - region_h) / 2).
C12_FillCovers ==
    ScaleCalled /\ scaling_mode = "Fill" =>
        LET new    == FillSize(img, RegionWidth, RegionHeight)
            scaled == Resize(img, new[1], new[2])
            crop_x == (new[1] - RegionWidth) \div 2
            crop_y == (new[2] - RegionHeight) \div 2
        IN  /\ new[1] >= RegionWidth /\ new[2] >= RegionHeight
            /\ pc = "scale_done"
            /\ \A c \in Coords(RegionWidth, RegionHeight) :
                /\ <<c[1] + crop_x, c[2] + crop_y>> \in Coords(scaled.w, scaled.h)
                /\ scaled_img.px[c] = scaled.px[<<c[1] + crop_x, c[2] + crop_y>>]

\* What holds of C12: the scaled size covers the region, and every Fill call
\* that returns has read each output pixel from the resampled image.
C12_WhenReturned ==
    ScaleCalled /\ scaling_mode = "Fill" =>
        LET new    == FillSize(img, RegionWidth, RegionHeight)
            scaled == Resize(img, new[1], new[2])
            crop_x == (new[1] - RegionWidth) \div 2
            crop_y == (new[2] - RegionHeight) \div 2
        IN  /\ new[1] >= RegionWidth /\ new[2] >= RegionHeight
            /\ pc = "scale_done" =>
                \A c \in Coords(RegionWidth, RegionHeight) :
                    /\ <<c[1] + crop_x, c[2] + crop_y>> \in Coords(scaled.w, scaled.h)
                    /\ scaled_img.px[c] = scaled.px[<<c[1] + crop_x, c[2] + crop_y>>]

----------------------------------------------------------------------------
(* The thresholds *)

ThresholdCalled ==
    caller = "threshold" /\ pc \in {"thr_done", "thr_panicked", "thr_runaway"}

\* Half the pixels of the grid are 10 and the other half 60000.
TwoLevel(image) ==
    /\ Levels(image) = {10, 60000}
    /\ 2 * Histogram(image)[10] = image.w * image.h

\* C13: on a grid with half its pixels at 10 and half at 60000,
\* calculate_otsu_threshold returns a threshold strictly between 10 and 60000.
C13_OtsuBetweenLevels ==
    ThresholdCalled /\ processing_method = "Otsu" /\ TwoLevel(gray_img) =>
        pc = "thr_done" /\ 10 < threshold /\ threshold < 60000

\* What holds of C13: the threshold returned is the lower level itself.
C13_OtsuLowerLevel ==
    ThresholdCalled /\ processing_method = "Otsu" /\ TwoLevel(gray_img) =>
        pc = "thr_done" /\ threshold = 10

Uniform(image) == Cardinality(Levels(image)) = 1

\* C14: on a uniform grid each of the five threshold calculations returns.
C14_UniformReturns ==
    ThresholdCalled /\ Uniform(gray_img) => pc = "thr_done"

\* What holds of C14: Otsu and Kapur return on every uniform grid, Wolf on
\* none, and Sauvola and Bernsen on none that has no full window.
C14_UniformOutcomes ==
    ThresholdCalled /\ Uniform(gray_img) =>
        /\ processing_method \in {"Otsu", "Kapur"} => pc = "thr_done"
        /\ processing_method = "Wolfs" => pc = "thr_panicked"
        /\ processing_method = "Sauvola"
             /\ Centres(gray_img, calculate_window_size(gray_img)) = {}
             => pc = "thr_panicked"
        /\ processing_method = "Bernsens"
             /\ Centres(gray_img, BernsenWindow) = {}
             => pc # "thr_done"

\* The width or the height is at most twice the half-size of the window of
\* the method, so that no pixel has a full window.
NoFullWindow ==
    \/ /\ processing_method = "Bernsens"
       /\ (gray_img.w <= 2 * 15 \/ gray_img.h <= 2 * 15)
    \/ /\ processing_method = "Sauvola"
       /\ LET half == Max(5, Min(50, RoundDiv(5 * Min(gray_img.w, gray_img.h), 100)))
          IN  gray_img.w <= 2 * half \/ gray_img.h <= 2 * half

\* C15: when no pixel has a full window calculate_sauvola_threshold and
\* calculate_bernsen_threshold return a fallback threshold.
C15_FallbackWhenNoWindow ==
    ThresholdCalled /\ NoFullWindow => pc = "thr_done"

\* What holds of C15: no such call returns.
C15_NoReturnWhenNoWindow ==
    ThresholdCalled /\ NoFullWindow => pc # "thr_done"

RECURSIVE SumOver(_, _)
\* The sum of f[c] over the c of S.
SumOver(f, S) ==
    IF S = {} THEN 0
    ELSE LET c == CHOOSE e \in S : TRUE IN f[c] + SumOver(f, S \ {c})

\* The threshold of C18: half the mean of the intensities weighted by the
\* contrast of the window centred on each pixel, cut to an integer, and 32768
\* when the contrasts sum to 0.
WolfWeightedMean(image) ==
    LET cs         == Coords(image.w, image.h)
        half       == calculate_window_size(image)
        contrast   == [c \in cs |-> LocalMax(image, c, half) - LocalMin(image, c, half)]
        weight_sum == SumOver(contrast, cs)
        contrast_sum == SumOver([c \in cs |-> contrast[c] * image.px[c]], cs)
    IN  IF weight_sum > 0 THEN contrast_sum \div (2 * weight_sum) ELSE 32768

\* C18: calculate_wolf_threshold returns the threshold WolfWeightedMean.
C18_WolfWeightedMean ==
    ThresholdCalled /\ processing_method = "Wolfs" =>
        pc = "thr_done" /\ threshold = WolfWeightedMean(gray_img)

\* What holds of C18: on a grid with a pixel the call panics.
C18_WolfPanics ==
    ThresholdCalled /\ processing_method = "Wolfs" => pc = "thr_panicked"

\* process_image returned a mask computed with a global threshold.
GlobalMaskReturned ==
    /\ pc = "proc_done"
    /\ caller = "process"
    /\ processing_method \in {"Otsu", "Kapur"}

\* The pixel at c is one the sampling pass extracts from the mask, looking at
\* every pixel.
Extracted(c) == Point(c[1], c[2]) \in get_black_pixels_adaptive(bw_img, 1)

\* C17 as stated: with Otsu or Kapur, the pixels the sampling pass extracts
\* from the mask are exactly those of intensity strictly greater than the
\* threshold.
C17_ForegroundAbove ==
    GlobalMaskReturned =>
        \A c \in Coords(gray_img.w, gray_img.h) :
            Extracted(c) <=> gray_img.px[c] > threshold

\* C17 corrected: with Otsu or Kapur, the pixels the sampling pass extracts
\* from the mask are exactly those of intensity at most the threshold; a
\* pixel strictly above the threshold is 255 in the mask and is not extracted.
C17_ForegroundAtOrBelow ==
    GlobalMaskReturned =>
        \A c \in Coords(gray_img.w, gray_img.h) :
            /\ Extracted(c) <=> gray_img.px[c] <= threshold
            /\ bw_img.px[c] = 255 <=> gray_img.px[c] > threshold

\* A mask returned with Otsu whose grid has a pixel equal to the threshold,
\* extracted, and a pixel above it, not extracted.
C17_Witness ==
    /\ GlobalMaskReturned
    /\ processing_method = "Otsu"
    /\ \E c, d \in Coords(gray_img.w, gray_img.h) :
        /\ gray_img.px[c] = threshold
        /\ Extracted(c)
        /\ gray_img.px[d] > threshold
        /\ ~Extracted(d)

\* C19: the mask depends only on the grid, the method and the build, whatever
\* the order in which the workers map the pixels: the threshold is the one
\* the calculation gives for the grid, each value mapped so far sits at the
\* index of its pixel and depends only on that pixel and the threshold, and
\* the mask returned holds at each place the value of the pixel of that place.
C19_MaskDetermined ==
    pc \in {"binarize", "proc_done"} /\ caller = "process" =>
        /\ threshold = ThresholdResult(gray_img, processing_method,
                                       overflow_checks)[2]
        /\ DOMAIN binary_pixels = (0..(gray_img.w * gray_img.h - 1)) \ pending
        /\ \A k \in DOMAIN binary_pixels :
               binary_pixels[k] =
                   Binarize(gray_img.px[PixelCoord(gray_img, k)], threshold)
        /\ pc = "proc_done" =>
               bw_img = Image(gray_img.w, gray_img.h,
                              [c \in Coords(gray_img.w, gray_img.h) |->
                                  Binarize(gray_img.px[c], threshold)])

\* A mask of two rows with both values returned after the workers mapped its
\* pixels.
C19_Witness ==
    /\ pc = "proc_done"
    /\ caller = "process"
    /\ gray_img.h >= 2
    /\ gray_img.w >= 2
    /\ {bw_img.px[c] : c \in Coords(bw_img.w, bw_img.h)} = {0, 255}
    /\ bw_img.px[<<0, 0>>] # bw_img.px[<<1, 0>>]
    /\ bw_img.px[<<0, 0>>] # bw_img.px[<<0, 1>>]

\* C20: the sampling pass returns exactly the points (x, y) inside the mask
\* with x and y multiples of the stride and the mask 0 at (x, y), whatever the
\* order in which the workers look at the coordinates, and the stride is 3, 2
\* or 1 for Fast, Balanced or Accurate.
C20_SampledPoints ==
    caller = "sample" =>
        /\ step = (CASE accuracy = "Fast" -> 3
                     [] accuracy = "Balanced" -> 2
                     [] accuracy = "Accurate" -> 1)
        /\ pc = "sample_done" =>
            /\ sampled = {Point(c[1], c[2]) :
                             c \in {d \in (0..(img.w - 1)) \X (0..(img.h - 1)) :
                                       /\ d[1] % step = 0
                                       /\ d[2] % step = 0
                                       /\ img.px[d] = 0}}
            /\ sampled = get_black_pixels_adaptive(img, step)

\* The pass returned on a mask of seven pixels with stride 2, having kept two
\* points or more, skipped a pixel of value 0 off the stride and dropped a
\* pixel of value 255 on it.
C20_Witness ==
    /\ caller = "sample"
    /\ pc = "sample_done"
    /\ accuracy = "Balanced"
    /\ img.w = 7
    /\ Cardinality(sampled) >= 2
    /\ \E c \in Coords(img.w, img.h) :
          img.px[c] = 0 /\ Point(c[1], c[2]) \notin sampled
    /\ \E c \in Coords(img.w, img.h) :
          img.px[c] # 0 /\ c[1] % 2 = 0 /\ c[2] % 2 = 0

\* The index of the running call has been built.
IndexBuilt == pc \in {"fcc_loop", "trace", "fcc_done"}

\* The cell (floor(x/g), floor(y/g)) of a point.
FloorKey(p, g) == <<p.x \div g, p.y \div g>>

\* C21: every input point, negative coordinates included, is stored under
\* the cell (floor(x/g), floor(y/g)), g being the cell size, and the cell
\* find_next_point computes for the last point of the line is its floor cell.
C21_FloorCells ==
    IndexBuilt =>
        LET g == Max(max_distance, 1)
        IN  /\ \A p \in points :
                /\ FloorKey(p, g) \in DOMAIN spatial_index
                /\ p \in Range(spatial_index[FloorKey(p, g)])
            /\ pc = "trace" => GridKey(Last(line), g) = FloorKey(Last(line), g)

\* What holds of C21: every input point is stored, once, under the cell of
\* the quotients truncated toward zero, which find_next_point computes too;
\* that cell is the floor cell for the points without a negative coordinate.
C21_TruncatedCells ==
    IndexBuilt =>
        LET g == Max(max_distance, 1)
        IN  /\ \A p \in points :
                /\ GridKey(p, g) \in DOMAIN spatial_index
                /\ Cardinality({k \in 1..Len(spatial_index[GridKey(p, g)]) :
                                   spatial_index[GridKey(p, g)][k] = p}) = 1
                /\ (p.x >= 0 /\ p.y >= 0) => GridKey(p, g) = FloorKey(p, g)
            /\ \A c \in DOMAIN spatial_index :
                   \A k \in 1..Len(spatial_index[c]) :
                       /\ spatial_index[c][k] \in points
                       /\ GridKey(spatial_index[c][k], g) = c

\* get_speed returned a Duration.
SpeedReturned == caller = "speed" /\ pc = "speed_done"

\* The number of the delay each description announces ("(1ms/line)", ...).
AnnouncedPerLine(s) ==
    CASE s = "UniverseAnnihilating" -> 1
      [] s = "UltraFast" -> 1
      [] s = "Fast" -> 10
      [] s = "Medium" -> 50
      [] s = "Slow" -> 200

\* A Duration of so many milliseconds.
Millis(ms) == Duration(ms \div 1000, (ms % 1000) * 1000000)

\* C22: get_speed returns the delay the description of the speed announces:
\* 1, 10, 50 and 200 milliseconds for UltraFast, Fast, Medium and Slow, and
\* a delay that is not zero for UniverseAnnihilating once confirmed.
C22_AnnouncedDelay ==
    SpeedReturned =>
        IF speed = "UniverseAnnihilating"
        THEN ~is_zero(drawing_speed)
        ELSE drawing_speed = Millis(AnnouncedPerLine(speed))

\* What holds of C22: the delay returned is the announced number taken as
\* microseconds for UltraFast, Fast, Medium and Slow, and zero for
\* UniverseAnnihilating; each sleep adds just that delay.
C22_MicrosAndZero ==
    SpeedReturned =>
        /\ IF speed = "UniverseAnnihilating"
           THEN is_zero(drawing_speed)
           ELSE /\ drawing_speed = Duration(0, AnnouncedPerLine(speed) * 1000)
                /\ drawing_speed.nanos * 1000 = Millis(AnnouncedPerLine(speed)).nanos
        /\ elapsed = slept * drawing_speed.nanos

\* C23: with max_distance >= 1 a path ends only when it cannot be extended:
\* at the step at which trace_line returns, no unvisited input point lies
\* within squared distance max_distance^2 of the last point of the path.
C23_EndsWhenStuck ==
    [][(pc = "trace" /\ pc' = "fcc_loop" /\ max_distance >= 1) =>
          /\ line' = line
          /\ \A r \in points \ visited :
                distance_squared(Last(line), r) > max_distance * max_distance]_vars

\* trace_line returned a path of two points or more that ends at a point of
\* negative x, while an unvisited point lay in the 3x3 block of cells around
\* that last point.
C23_Witness ==
    /\ pc = "fcc_loop"
    /\ caller = "direct"
    /\ max_distance >= 1
    /\ traced # <<>>
    /\ Len(Last(traced)) >= 2
    /\ Last(Last(traced)).x < 0
    /\ \E r \in points \ visited :
          LET kp == GridKey(Last(Last(traced)), max_distance)
              kr == GridKey(r, max_distance)
          IN  /\ kr[1] - kp[1] \in -1..1
              /\ kr[2] - kp[2] \in -1..1

RECURSIVE ClassMassSum(_, _, _)
\* The sum over the bins of one class of p * ln(p / w), w being the mass of
\* the whole class: with counts c and the count W of the class the sum is
\* -ln(n / d) / total for n / d = product of (W / c)^c; the result is
\* <<n, d>>, each factor in lowest terms.
ClassMassSum(histogram, bins, W) ==
    IF bins = {} THEN <<1, 1>>
    ELSE LET v    == CHOOSE a \in bins : TRUE
             c    == histogram[v]
             rest == ClassMassSum(histogram, bins \ {v}, W)
             g    == GCD(W, c)
         IN  <<Pow(W \div g, c) * rest[1], Pow(c \div g, c) * rest[2]>>

\* -sum0 - sum1 of C24 at threshold t, as <<n, d>>: ln(n / d) / total.
ClassMassEntropy(histogram, t) ==
    LET bins0  == {v \in DOMAIN histogram : v <= t}
        bins1  == {v \in DOMAIN histogram : v > t}
        class0 == ClassMassSum(histogram, bins0, CountBins(histogram, bins0))
        class1 == ClassMassSum(histogram, bins1, CountBins(histogram, bins1))
    IN  <<class0[1] * class1[1], class0[2] * class1[2]>>

\* calculate_kapur_threshold returned.
KapurReturned ==
    ThresholdCalled /\ pc = "thr_done" /\ processing_method = "Kapur"

\* C24: at every threshold t the value -sum0 - sum1 that
\* calculate_kapur_threshold compares is the one whose class sums are taken
\* with the total mass of the class for every bin, and the threshold returned
\* maximizes it.
C24_ClassMassSums ==
    KapurReturned =>
        LET histogram == Histogram(gray_img)
        IN  \A t \in Range(CandidateThresholds(gray_img)) :
                LET code  == KapurEntropy(histogram, t)
                    claim == ClassMassEntropy(histogram, t)
                    best  == ClassMassEntropy(histogram, threshold)
                IN  /\ code[1] * claim[2] = claim[1] * code[2]
                    /\ best[1] * claim[2] >= claim[1] * best[2]

\* What holds of C24: the class sums are taken with the mass of the class up
\* to the bin, so the value compared is never above the one of C24; the
\* threshold returned is the first to maximize the value compared, which here
\* maximizes the one of C24 too.
C24_RunningMassSums ==
    KapurReturned =>
        LET histogram == Histogram(gray_img)
        IN  \A t \in Range(CandidateThresholds(gray_img)) :
                LET code  == KapurEntropy(histogram, t)
                    claim == ClassMassEntropy(histogram, t)
                    kept  == KapurEntropy(histogram, threshold)
                    best  == ClassMassEntropy(histogram, threshold)
                IN  /\ code[1] * claim[2] <= claim[1] * code[2]
                    /\ kept[1] * code[2] >= code[1] * kept[2]
                    /\ (t < threshold => kept[1] * code[2] > code[1] * kept[2])
                    /\ best[1] * claim[2] >= claim[1] * best[2]

\* calculate_kapur_threshold returned on a grid of three intensities, where a
\* class has two bins and the two sums differ.
C24_ThreeLevels ==
    /\ KapurReturned
    /\ Cardinality(Levels(gray_img)) >= 3
    /\ \E t \in Levels(gray_img) :
          KapurEntropy(Histogram(gray_img), t)
              # ClassMassEntropy(Histogram(gray_img), t)

\* p is the smallest point of S in (y, x) order.
SmallestYX(p, S) == p \in S /\ \A q \in S : q = p \/ KeyLessYX(p, q)

\* C25: each traced path starts at the smallest point in (y, x) order among
\* the points not visited when it starts, and the first traced path starts at
\* the smallest point of the input, whatever order the input set yields its
\* points in.
C25_StartsAtSmallest ==
    /\ [][(pc = "fcc_loop" /\ pc' = "trace") =>
             /\ Len(line') = 1
             /\ SmallestYX(line'[1], points \ visited)]_vars
    /\ [](traced # <<>> => SmallestYX(traced[1][1], points))
    /\ []((pc = "trace" /\ traced = <<>>) => SmallestYX(line[1], points))

\* A second path starts at a point smaller than a point the first path
\* visited, on a set that does not yield its smallest point first.
C25_Witness ==
    /\ pc = "trace"
    /\ caller = "direct"
    /\ Len(line) = 1
    /\ traced # <<>>
    /\ \E p \in visited \ {line[1]} : KeyLessYX(line[1], p)
    /\ ~SmallestYX(order[1], points)

\* The unvisited input points find_next_point may return from `current`: those
\* of the 3x3 block of cells around it that lie within max_distance.
Reachable(current, vis) ==
    LET g  == Max(max_distance, 1)
        kc == GridKey(current, g)
    IN  {r \in points \ vis :
            /\ GridKey(r, g)[1] - kc[1] \in -1..1
            /\ GridKey(r, g)[2] - kc[2] \in -1..1
            /\ distance_squared(current, r) <= max_distance * max_distance}

\* The nearest of them.
Nearest(current, vis) ==
    {r \in Reachable(current, vis) :
        \A s \in Reachable(current, vis) :
            distance_squared(current, r) <= distance_squared(current, s)}

\* The points of the first j lines of a list.
PointsBefore(ls, j) == UNION {Range(ls[k]) : k \in 1..(j - 1)}

\* At every step of the trace recorded in `traced` the nearest candidate was
\* the only one at its distance.
NoTies ==
    \A j \in 1..Len(traced) :
        \A k \in 1..(Len(traced[j]) - 1) :
            Cardinality(Nearest(traced[j][k],
                                PointsBefore(traced, j)
                                    \cup {traced[j][m] : m \in 1..k})) = 1

\* The trace written without the index and without any order of the input
\* set: each line starts at the smallest unvisited point and goes on to a
\* nearest candidate for as long as there is one.
RECURSIVE OrderFreeLine(_, _)
OrderFreeLine(l, vis) ==
    IF Nearest(Last(l), vis) = {} THEN l
    ELSE LET q == CHOOSE r \in Nearest(Last(l), vis) : TRUE
         IN  OrderFreeLine(Append(l, q), vis \cup {q})

RECURSIVE OrderFreeTrace(_, _)
OrderFreeTrace(vis, acc) ==
    IF points \ vis = {} THEN acc
    ELSE LET s == CHOOSE p \in points \ vis : SmallestYX(p, points \ vis)
             l == OrderFreeLine(<<s>>, vis \cup {s})
         IN  OrderFreeTrace(vis \cup Range(l), Append(acc, l))

\* C26: the order in which the input set yields its points changes the
\* result only through distance ties: a call in which the nearest candidate
\* was unique at every step returns the list of paths that the point set and
\* max_distance determine, the same for every order.
C26_OrderOnlyBreaksTies ==
    (pc = "fcc_done" /\ NoTies) =>
        /\ traced = OrderFreeTrace({}, <<>>)
        /\ lines = SortLines(SelectSeq(OrderFreeTrace({}, <<>>), KeepLine))

\* A call returned paths without having met a tie, on a set that yields the
\* points of a cell of three or more in an order that is not their sorted one
\* and that had candidates at different distances at some step.
C26_Witness ==
    /\ pc = "fcc_done"
    /\ caller = "direct"
    /\ NoTies
    /\ lines # <<>>
    /\ \E c \in DOMAIN spatial_index :
          /\ Len(spatial_index[c]) >= 3
          /\ spatial_index[c] # SortByKey(spatial_index[c])
    /\ \E j \in 1..Len(traced) : \E k \in 1..(Len(traced[j]) - 1) :
          Cardinality(Reachable(traced[j][k],
                                PointsBefore(traced, j)
                                    \cup {traced[j][m] : m \in 1..k})) >= 2

\* Where the order shows: two candidates at the same nearest distance, and a
\* result that is not the one of the order-free trace.
C26_TieDecidedByOrder ==
    /\ pc = "fcc_done"
    /\ ~NoTies
    /\ traced # OrderFreeTrace({}, <<>>)

\* calculate_class_statistics was called and ended.
StatisticsCalled ==
    caller = "statistics" /\ pc \in {"stat_done", "stat_panicked"}

\* The bins of the two classes of the call.
StatLow == {v \in DOMAIN stat_histogram : v <= stat_threshold}
StatHigh == {v \in DOMAIN stat_histogram : v > stat_threshold}

\* C27: the u32 accumulators sum0 and sum1 never go past 2^32 - 1: the call
\* returns, and the sums it divides by the counts to get mu0 and mu1 are the
\* sums of intensity * count over the classes, so that the means are exact.
C27_SumsFit ==
    StatisticsCalled =>
        /\ pc = "stat_done"
        /\ class_stats.sum0 = SumBins(stat_histogram, StatLow)
        /\ class_stats.sum1 = SumBins(stat_histogram, StatHigh)

\* What holds of C27: the sums are exact for the images of at most 65537
\* pixels; a class whose sum of intensity * count is 2^32 or more ends the
\* call in a panic with overflow checks and leaves the sum less 2^32, or a
\* multiple of it, without them.
C27_SumsFitSmallImages ==
    StatisticsCalled =>
        LET full0 == SumBins(stat_histogram, StatLow)
            full1 == SumBins(stat_histogram, StatHigh)
            over  == ExceedsU32(full0) \/ ExceedsU32(full1)
        IN  /\ CountBins(stat_histogram, DOMAIN stat_histogram) <= 65537
                => ~over
            /\ pc = "stat_panicked" <=> (over /\ overflow_checks)
            /\ pc = "stat_done" =>
                  /\ class_stats.sum0 = WrapU32(full0)
                  /\ class_stats.sum1 = WrapU32(full1)
                  /\ (class_stats.sum0 = full0) <=> ~ExceedsU32(full0)
                  /\ (class_stats.sum1 = full1) <=> ~ExceedsU32(full1)

\* The call returned sums that are exact, on an image of more than one
\* intensity.
C27_ExactReturned ==
    /\ StatisticsCalled
    /\ pc = "stat_done"
    /\ StatLow # {} /\ StatHigh # {}
    /\ class_stats.sum0 = SumBins(stat_histogram, StatLow)
    /\ class_stats.sum1 = SumBins(stat_histogram, StatHigh)
    /\ Value(class_stats.sum1) > 65535

\* calculate_sauvola_threshold was called on a grid whose loop bounds do not
\* underflow.
SauvolaCalled ==
    /\ ThresholdCalled
    /\ processing_method = "Sauvola"
    /\ ~RangeUnderflows(gray_img, calculate_window_size(gray_img))

\* The sum of the intensities (squared when sq) of the pixels with
\* x0 < x <= x1 and y0 < y <= y1 for the window of centre c.
DirectWindowSum(image, c, window_size, sq) ==
    LET inside == {d \in Coords(image.w, image.h) :
                      /\ c[1] - window_size < d[1] /\ d[1] <= c[1] + window_size
                      /\ c[2] - window_size < d[2] /\ d[2] <= c[2] + window_size}
    IN  SumOver([d \in inside |-> IF sq THEN image.px[d] * image.px[d]
                                        ELSE image.px[d]], inside)

\* C28: no step of the windowed sum I[y1][x1] - I[y0][x1] - I[y1][x0]
\* + I[y0][x0], taken from left to right, goes below zero, and the sum is the
\* sum of the intensities of the pixels with x0 < x <= x1 and y0 < y <= y1;
\* likewise for the squared intensities.
C28_WindowSumNeverNegative ==
    SauvolaCalled =>
        LET window_size == calculate_window_size(gray_img)
            integral    == IntegralTable(gray_img, FALSE)
            integral_sq == IntegralTable(gray_img, TRUE)
        IN  \A c \in Centres(gray_img, window_size) :
                /\ ~WindowSumUnderflows(integral, c, window_size)
                /\ ~WindowSumUnderflows(integral_sq, c, window_size)
                /\ WindowSum(integral, c, window_size)
                       = DirectWindowSum(gray_img, c, window_size, FALSE)
                /\ WindowSum(integral_sq, c, window_size)
                       = DirectWindowSum(gray_img, c, window_size, TRUE)

\* What holds of C28: the first subtraction never goes below zero and the sum
\* is, modulo 2^64, the sum over the window; the second subtraction goes below
\* zero for the windows whose corner entry I[y0][x0] is larger than their sum,
\* and then a build with overflow checks panics.
C28_WindowSumWraps ==
    SauvolaCalled =>
        LET window_size == calculate_window_size(gray_img)
            integral    == IntegralTable(gray_img, FALSE)
            integral_sq == IntegralTable(gray_img, TRUE)
            cs          == Centres(gray_img, window_size)
            x0y0(c)     == <<c[1] - window_size, c[2] - window_size>>
            x1y0(c)     == <<c[1] + window_size, c[2] - window_size>>
            x1y1(c)     == <<c[1] + window_size, c[2] + window_size>>
        IN  /\ \A c \in cs :
                /\ integral[x1y1(c)] >= integral[x1y0(c)]
                /\ integral_sq[x1y1(c)] >= integral_sq[x1y0(c)]
                /\ WindowSum(integral, c, window_size)
                       = DirectWindowSum(gray_img, c, window_size, FALSE)
                /\ WindowSum(integral_sq, c, window_size)
                       = DirectWindowSum(gray_img, c, window_size, TRUE)
                /\ WindowSumUnderflows(integral, c, window_size)
                       <=> integral[x0y0(c)]
                               > WindowSum(integral, c, window_size)
            /\ (overflow_checks /\ \E c \in cs :
                    WindowSumUnderflows(integral, c, window_size))
                   => pc = "thr_panicked"

\* The call returned on a striped grid whose windows all keep their steps at
\* zero or above.
C28_NoUnderflowReturned ==
    /\ SauvolaCalled
    /\ pc = "thr_done"
    /\ gray_img \in StripedGrids
    /\ overflow_checks

\* C29: in Fill mode every coordinate (crop_x + x, crop_y + y) read from the
\* resampled image lies inside the image that resize returned, and the call
\* returns.
C29_FillReadsInside ==
    ScaleCalled /\ scaling_mode = "Fill" =>
        /\ ~FillReadsOutside(img, RegionWidth, RegionHeight)
        /\ pc = "scale_done"

\* What holds of C29: the guard lets through the coordinates below new_width
\* and new_height; a read falls outside exactly when the image that resize
\* returned is narrower or lower than the part of the new_width x new_height
\* box that the region shows, and the call then panics.
C29_FillPanicsWhenSmaller ==
    ScaleCalled /\ scaling_mode = "Fill" =>
        LET new    == FillSize(img, RegionWidth, RegionHeight)
            scaled == Resize(img, new[1], new[2])
            crop_x == FillCrop(new[1], RegionWidth)
            crop_y == FillCrop(new[2], RegionHeight)
        IN  /\ scaled.w <= new[1] /\ scaled.h <= new[2]
            /\ FillReadsOutside(img, RegionWidth, RegionHeight)
                   <=> \/ scaled.w < Min(new[1], crop_x + RegionWidth)
                       \/ scaled.h < Min(new[2], crop_y + RegionHeight)
            /\ pc = "scale_panicked"
                   <=> FillReadsOutside(img, RegionWidth, RegionHeight)

\* A Fill call returned: the image that resize returned has the size asked
\* for, and the region shows a part of it cut on both sides.
C29_FillReturnedCropped ==
    /\ ScaleCalled /\ scaling_mode = "Fill"
    /\ pc = "scale_done"
    /\ FillCrop(FillSize(img, RegionWidth, RegionHeight)[1], RegionWidth) > 0
       \/ FillCrop(FillSize(img, RegionWidth, RegionHeight)[2], RegionHeight) > 0

\* draw_image is in its loop over the lines, or left it by its return or by
\* the exit of the process.
Replaying == caller = "draw" /\ pc \in {"draw_loop", "draw_done", "exited"}

\* The calls of button among the events, in order.
Buttons == SelectSeq(events, LAMBDA e : e.op = "button")

\* The events of the replay of the first k lines.
RECURSIVE Strokes(_)
Strokes(k) ==
    IF k = 0 THEN <<>>
    ELSE Strokes(k - 1)
         \o (IF Len(lines[k]) < 2 THEN <<>> ELSE StrokeEvents(start_pos, lines[k]))

\* C30: while draw_image replays the paths, Press and Release alternate
\* starting with Press; one Press and one Release bracket the moves of each
\* path replayed; no path is replayed twice; and the button is released
\* whenever the loop is between two paths, when draw_image returns and when a
\* held Q key ends the process.
C30_PressReleaseBracketPaths ==
    /\ \A k \in 1..Len(Buttons) :
          Buttons[k] = IF k % 2 = 1 THEN Press ELSE Release
    /\ Replaying =>
          /\ Len(Buttons) % 2 = 0
          /\ Len(Buttons) = 2 * (n - 1)
          /\ events = Strokes(n - 1)
          /\ \A j, k \in 1..Len(lines) : j # k => lines[j] # lines[k]
          /\ \A k \in 1..(n - 1) :
                LET stroke == StrokeEvents(start_pos, lines[k])
                IN  /\ stroke[2] = Press
                    /\ stroke[Len(stroke)] = Release
                    /\ \A m \in 1..Len(stroke) :
                          m \notin {2, Len(stroke)} => stroke[m].op = "move_mouse"

\* Q ended the process after one of two shuffled paths was replayed.
C30_Witness ==
    /\ caller = "draw"
    /\ pc = "exited"
    /\ line_order = "Shuffled"
    /\ Len(lines) = 2
    /\ n = 2
    /\ Len(Buttons) = 2

====
